---------------------------- MODULE Spec2Model ----------------------------
(***************************************************************************)
(* Route & load optimization service of milesconnect-prototype.            *)
(*                                                                         *)
(* The model follows one HTTP request per goroutine through the handlers   *)
(* of optimization-service/internal/api/handlers.go and through the       *)
(* nearest-neighbour sequencer SolveTSPNearestNeighbor (src/unnamed/       *)
(* part_003).  Every goroutine owns its handler locals; the variables are  *)
(* functions from goroutine to the value of that local.                    *)
(*                                                                         *)
(* float64 values are modelled symbolically: a latitude or longitude is    *)
(* the JSON number literal of the request ("0", "1", "1e308", "-1e308"),   *)
(* a distance is the haversine value in whole metres, NaN is a value of    *)
(* its own that every comparison answers false for.                        *)
(***************************************************************************)
EXTENDS Integers, Sequences, FiniteSets, TLC

(***************************************************************************)
(* Bounds of the model                                                     *)
(***************************************************************************)
MaxStops ==
    3

MaxCalls ==
    2

MaxVehicles ==
    2

MaxShipments ==
    3

\* Longest stop list of the requests that are served concurrently.
MaxConcStops ==
    2

\* Most shipments of one trip sheet.
MaxTripShipments ==
    2

\* Largest forecast_days a caller of forecastDemand passes explicitly.
MaxForecastDays ==
    2

\* Most shipment rows the server actions insert in one run.
MaxRows ==
    2

\* The goroutines net/http serves requests on.
Procs ==
    { "g1" }

(***************************************************************************)
(* Program constants                                                       *)
(***************************************************************************)
StatusOK ==
    200

StatusBadRequest ==
    400

StatusMethodNotAllowed ==
    405

\* math.MaxFloat64: larger than every distance Distance can return.
MaxFloat64 ==
    2147483647

\* The float64 NaN.  It is no distance: FLess answers FALSE for it.
NaN ==
    -1

\* No status line written (the zero state of a fresh http.ResponseWriter).
NoStatus ==
    0

(***************************************************************************)
(* Coordinates (part_003 lines 11-15)                                      *)
(***************************************************************************)
NormalPoints ==
    { <<"0", "0">>, <<"0", "1">>, <<"1", "0">> }

\* Latitudes whose difference overflows float64: 1e308 - (-1e308) = +Inf.
HugePoints ==
    { <<"1e308", "0">>, <<"-1e308", "0">> }

IDs ==
    { "", "A" }

Coordinate(ll, id) ==
    [Lat |-> ll[1], Lon |-> ll[2], ID |-> id]

\* The zero value of the Go struct Coordinate.
ZeroCoordinate ==
    Coordinate(<<"0", "0">>, "")

StartVals ==
    { Coordinate(ll, "") : ll \in NormalPoints \cup HugePoints }

StopVals ==
    { Coordinate(ll, id) : ll \in NormalPoints, id \in IDs }
      \cup { Coordinate(ll, "") : ll \in HugePoints }

\* spec.md section 3: latitude in [-90,90], longitude in [-180,180].
InRange(p) ==
    <<p.Lat, p.Lon>> \in NormalPoints

RECURSIVE SeqsUpTo(_, _)
SeqsUpTo(S, n) ==
    IF n = 0 THEN { <<>> }
    ELSE LET shorter == SeqsUpTo(S, n - 1)
         IN  shorter \cup { Append(s, x) : s \in { t \in shorter : Len(t) = n - 1 }, x \in S }

(***************************************************************************)
(* Distance (part_003 lines 24-37): the haversine formula evaluated in     *)
(* IEEE-754 double precision on every pair of the model's points, in       *)
(* metres.  dLat = (-1e308) - 1e308 overflows to -Inf, math.Sin(-Inf) is   *)
(* NaN, and NaN propagates to the result.  1e308 - 1 = 1e308 in float64,   *)
(* so a huge point is as far from (1,0) as from (0,0).                      *)
(***************************************************************************)
IsHuge(p) ==
    <<p.Lat, p.Lon>> \in HugePoints

Distance(p1, p2) ==
    CASE IsHuge(p1) /\ IsHuge(p2) ->
            IF p1.Lat = p2.Lat THEN 0 ELSE NaN
      [] IsHuge(p1) # IsHuge(p2) ->
            LET q == IF IsHuge(p1) THEN p2 ELSE p1
            IN  IF q.Lon = "0" THEN 11546490 ELSE 11546251
      [] OTHER ->
            IF p1.Lat = p2.Lat /\ p1.Lon = p2.Lon THEN 0
            ELSE IF p1.Lat = p2.Lat \/ p1.Lon = p2.Lon THEN 111195
            ELSE 157249

\* Mutant of FLess: the comparison written <=, so a later stop at the same
\* distance replaces an earlier one.
FLessOrEqual(x, y) ==
    x # NaN /\ y # NaN /\ x <= y

\* The float64 comparison x < y: false as soon as one side is NaN.
FLess(x, y) ==
    x # NaN /\ y # NaN /\ x < y


(***************************************************************************)
(* State.  Every variable is a function of the goroutine serving a request.*)
(***************************************************************************)
VARIABLES
    pc,          \* position of the goroutine in the handler / solver
    endpoint,    \* r.URL.Path the mux dispatched on
    method,      \* r.Method
    body,        \* r.Body, the payload as sent
    bodyRead,    \* whether r.Body has been consumed by a Decode
    err,         \* the handler's err: "unset", "nil" or "error"
    req,         \* the handler's req (OptimizationRequest)
    remaining,   \* SolveTSPNearestNeighbor: the slice remaining
    route,       \* SolveTSPNearestNeighbor: the slice route
    current,     \* SolveTSPNearestNeighbor: current
    nearestIdx,  \* SolveTSPNearestNeighbor: nearestIdx (0-based, -1 = none)
    minDist,     \* SolveTSPNearestNeighbor: minDist
    loadReq,     \* OptimizeLoadHandler's req (LoadRequest)
    sorted,      \* allocator: the shipments in processing order
    next,        \* allocator: how many of sorted have been processed
    remainingCap,\* allocator: remaining capacity per vehicle (input order)
    assignments, \* allocator: shipment ids per vehicle (input order)
    unassigned,  \* allocator: ids of the shipments no vehicle could take
    solverCalls, \* solver invocations made while serving the request
    status,      \* status code written to the ResponseWriter
    respBody,    \* body written to the ResponseWriter
    calls,       \* how many times the client has sent this request
    prevOut      \* what the client got for the previous, identical request

\* The variables of the optimization service (Go).
serviceVars ==
    << pc, endpoint, method, body, bodyRead, err, req, remaining, route,
       current, nearestIdx, minDist, loadReq, sorted, next, remainingCap,
       assignments, unassigned, solverCalls, status, respBody, calls,
       prevOut >>

(***************************************************************************)
(* State of the backend's routing service (routing.service.ts): one call   *)
(* of optimizeTripSheetRoute and its locals.                               *)
(***************************************************************************)
VARIABLES
    tripPc,        \* position of the call in optimizeTripSheetRoute
    tripShipments, \* shipments: the rows prisma.shipment.findMany returns
    tripVehicle,   \* vehicle: the row prisma.vehicle.findUnique returns
    waypoints,     \* waypoints
    startLocation, \* startLocation
    optimized,     \* optimized
    metrics,       \* metrics
    validation,    \* validation
    tripResult     \* the value the returned promise resolves to

tripVars ==
    << tripPc, tripShipments, tripVehicle, waypoints, startLocation,
       optimized, metrics, validation, tripResult >>

(***************************************************************************)
(* State of the backend's ML client (ml.service.ts): one call of a method  *)
(* of MLService and the locals of generateFallbackForecast.                *)
(***************************************************************************)
VARIABLES
    mlPc,          \* position of the call
    mlMethod,      \* the method of MLService that was called
    forecast_days, \* params.forecast_days
    mlCaught,      \* whether the catch block of the method was entered
    days,          \* generateFallbackForecast: days
    isGrowing,     \* generateFallbackForecast: isGrowing
    currentVolume, \* generateFallbackForecast: currentVolume
    forecasts,     \* generateFallbackForecast: forecasts
    mlResult       \* the value the returned promise resolves to

mlVars ==
    << mlPc, mlMethod, forecast_days, mlCaught, days, isGrowing,
       currentVolume, forecasts, mlResult >>

(***************************************************************************)
(* State of the shipment server actions (src/unnamed/part_000): the three  *)
(* tables they write, and one call with its locals.                        *)
(***************************************************************************)
VARIABLES
    shipmentsTable, \* the rows of table shipments
    driversTable,   \* the rows of table drivers, by id
    vehiclesTable,  \* the rows of table vehicles, by id
    nextRowId,      \* the id the next inserted shipment row gets
    shipPc,         \* position of the call in its server action
    shipCall,       \* the server action called and its arguments
    routeData,      \* createShipment: routeData
    shipment,       \* updateShipmentStatus, deleteShipment: shipment
    shipResult,     \* the value the server action returns
    writeFailed,    \* history: some database write has failed
    atCall          \* history: the tables as they were when the call began

shipVars ==
    << shipmentsTable, driversTable, vehiclesTable, nextRowId, shipPc,
       shipCall, routeData, shipment, shipResult, writeFailed, atCall >>

\* The variables of the TypeScript services.
backendVars ==
    << tripVars, mlVars, shipVars >>

\* Everything but the variables of one service.
notTrip ==
    << serviceVars, mlVars, shipVars >>

notMl ==
    << serviceVars, tripVars, shipVars >>

notShip ==
    << serviceVars, tripVars, mlVars >>

vars ==
    << serviceVars, backendVars >>

Methods ==
    { "GET", "POST" }

MethodPost ==
    "POST"

(***************************************************************************)
(* Request payloads.  A payload is either not decodable into the request   *)
(* struct (kind "malformed": not JSON, or a field of the wrong type) or a  *)
(* JSON object in which each field is present or absent.                   *)
(***************************************************************************)
MalformedBody ==
    [kind |-> "malformed", hasStart |-> FALSE, start |-> ZeroCoordinate,
     hasStops |-> FALSE, stops |-> <<>>]

RouteBodies ==
    { MalformedBody }
      \cup { [kind |-> "json", hasStart |-> TRUE, start |-> s,
              hasStops |-> TRUE, stops |-> ss] :
                  s \in StartVals, ss \in SeqsUpTo(StopVals, MaxStops) }
      \cup { [kind |-> "json", hasStart |-> FALSE, start |-> ZeroCoordinate,
              hasStops |-> TRUE, stops |-> ss] :
                  ss \in SeqsUpTo(StopVals, 1) }
      \cup { [kind |-> "json", hasStart |-> hs, start |-> ZeroCoordinate,
              hasStops |-> FALSE, stops |-> <<>>] : hs \in BOOLEAN }

\* var req models.OptimizationRequest: the zero value (Stops is nil).
ZeroOptimizationRequest ==
    [Start |-> ZeroCoordinate, Stops |-> <<>>]

\* Mutant of DecodeError: the error of Decode is not looked at.
DecodeNeverFails(b) ==
    FALSE

\* json.NewDecoder(r.Body).Decode(&req): an error for a payload that is not
\* decodable; otherwise the fields present overwrite req, absent ones keep
\* the value req had.
DecodeError(b) ==
    b.kind = "malformed"

DecodeOptimizationRequest(into, b) ==
    [Start |-> IF b.hasStart THEN b.start ELSE into.Start,
     Stops |-> IF b.hasStops THEN b.stops ELSE into.Stops]

(***************************************************************************)
(* /optimize-load payloads.  A vehicle is {id, capacityKg}, a shipment is  *)
(* {id, weightKg}; the ids of a request are its positions 1, 2, ...        *)
(***************************************************************************)
WeightVals ==
    { -1, 0, 50, 60 }

CapacityVals ==
    { -1, 0, 100, 110 }

MkShipments(ws) ==
    [i \in 1..Len(ws) |-> [ID |-> i, WeightKg |-> ws[i]]]

MkVehicles(cs) ==
    [i \in 1..Len(cs) |-> [ID |-> i, CapacityKg |-> cs[i]]]

MalformedLoadBody ==
    [kind |-> "malformed", hasVehicles |-> FALSE, vehicles |-> <<>>,
     hasShipments |-> FALSE, shipments |-> <<>>]

LoadBodies ==
    { MalformedLoadBody }
      \cup { [kind |-> "json", hasVehicles |-> TRUE, vehicles |-> MkVehicles(cs),
              hasShipments |-> TRUE, shipments |-> MkShipments(ws)] :
                  cs \in SeqsUpTo(CapacityVals, MaxVehicles),
                  ws \in SeqsUpTo(WeightVals, MaxShipments) }
      \cup { [kind |-> "json", hasVehicles |-> FALSE, vehicles |-> <<>>,
              hasShipments |-> TRUE, shipments |-> MkShipments(ws)] :
                  ws \in SeqsUpTo(WeightVals, 1) }
      \cup { [kind |-> "json", hasVehicles |-> TRUE, vehicles |-> MkVehicles(cs),
              hasShipments |-> FALSE, shipments |-> <<>>] :
                  cs \in SeqsUpTo(CapacityVals, 1) }
      \cup { [kind |-> "json", hasVehicles |-> FALSE, vehicles |-> <<>>,
              hasShipments |-> FALSE, shipments |-> <<>>] }

\* var req models.LoadRequest: the zero value.
ZeroLoadRequest ==
    [Vehicles |-> <<>>, Shipments |-> <<>>]

DecodeLoadRequest(into, b) ==
    [Vehicles |-> IF b.hasVehicles THEN b.vehicles ELSE into.Vehicles,
     Shipments |-> IF b.hasShipments THEN b.shipments ELSE into.Shipments]

\* handlers.go lines 41-46: the validation loop finds a shipment to reject.
InvalidShipment(shipments) ==
    \E i \in 1..Len(shipments) : shipments[i].WeightKg <= 0

(***************************************************************************)
(* Fleet load allocator, best-fit decreasing (spec.md section 4.4).        *)
(***************************************************************************)
\* Insert shipment s after every element at least as heavy: stable, descending.
RECURSIVE InsertByWeight(_, _)
InsertByWeight(s, sq) ==
    IF sq = <<>> THEN << s >>
    ELSE IF Head(sq).WeightKg >= s.WeightKg
         THEN << Head(sq) >> \o InsertByWeight(s, Tail(sq))
         ELSE << s >> \o sq

RECURSIVE SortByWeightDesc(_)
SortByWeightDesc(sq) ==
    IF sq = <<>> THEN <<>>
    ELSE InsertByWeight(sq[Len(sq)], SortByWeightDesc(SubSeq(sq, 1, Len(sq) - 1)))

\* Scan the vehicles in input order from index v on; best is the index of the
\* tightest vehicle found so far that still takes weight w (0 = none).
RECURSIVE BestFitFrom(_, _, _, _)
BestFitFrom(caps, w, v, best) ==
    IF v > Len(caps) THEN best
    ELSE IF caps[v] >= w /\ (best = 0 \/ caps[v] < caps[best])
         THEN BestFitFrom(caps, w, v + 1, v)
         ELSE BestFitFrom(caps, w, v + 1, best)

\* Mutant of BestFit: the first vehicle is taken, whatever room it has.
BestFitFirstVehicle(caps, w) ==
    IF Len(caps) = 0 THEN 0 ELSE 1

\* Mutant of BestFit: first fit, the first vehicle with enough room.
BestFitFirstFit(caps, w) ==
    IF \E v \in 1..Len(caps) : caps[v] >= w
    THEN CHOOSE v \in 1..Len(caps) :
            /\ caps[v] >= w
            /\ \A u \in 1..(v - 1) : caps[u] < w
    ELSE 0

BestFit(caps, w) ==
    BestFitFrom(caps, w, 1, 0)

(***************************************************************************)
(* Slices.  remaining is a slice header: base names the backing array it   *)
(* points into ("own": the array make() allocated, held in arr; "stops":   *)
(* the caller's req.Stops), len is its length.                             *)
(***************************************************************************)
NilSlice ==
    [base |-> "own", arr |-> <<>>, len |-> 0]

\* Mutant of CopyStops: remaining := stops, the slice shares the caller's
\* backing array.
CopyStopsAliased(stops) ==
    [base |-> "stops", arr |-> <<>>, len |-> Len(stops)]

\* remaining := make([]Coordinate, len(stops)); copy(remaining, stops)
CopyStops(stops) ==
    [base |-> "own", arr |-> stops, len |-> Len(stops)]

BackingArray(sl, stops) ==
    IF sl.base = "own" THEN sl.arr ELSE stops

\* The elements the slice header sl makes visible.
Elems(sl, stops) ==
    SubSeq(BackingArray(sl, stops), 1, sl.len)

\* Mutant of ShiftDown: the removal drops the first element of the slice
\* instead of the element at index i.
ShiftDownFromFront(a, len, i) ==
    [j \in 1..Len(a) |-> IF j < len THEN a[j + 1] ELSE a[j]]

\* append(a[:i], a[i+1:]...) on a backing array: the elements after index i
\* (0-based) move one place down, the last place keeps its old element.
ShiftDown(a, len, i) ==
    [j \in 1..Len(a) |-> IF j >= i + 1 /\ j < len THEN a[j + 1] ELSE a[j]]

\* The inner loop, lines 53-62, from 0-based index i on.
RECURSIVE ScanFrom(_, _, _, _, _)
ScanFrom(cur, rem, i, idx, md) ==
    IF i >= Len(rem) THEN [nearestIdx |-> idx, minDist |-> md]
    ELSE LET dist == Distance(cur, rem[i + 1])
         IN  IF FLess(dist, md) THEN ScanFrom(cur, rem, i + 1, i, dist)
             ELSE ScanFrom(cur, rem, i + 1, idx, md)

\* Mutant of NearestScan: the scan stops at the first stop of the pool.
NearestScanFirstOnly(cur, rem) ==
    [nearestIdx |-> 0, minDist |-> Distance(cur, rem[1])]

NearestScan(cur, rem) ==
    ScanFrom(cur, rem, 0, -1, MaxFloat64)

(***************************************************************************)
(* Responses                                                               *)
(***************************************************************************)
NoBody ==
    [text |-> "", json |-> <<>>]

ErrorBody(msg) ==
    [text |-> msg, json |-> <<>>]

JsonBody(v) ==
    [text |-> "json", json |-> v]

\* w.Write([]byte("OK"))
HealthBody ==
    [text |-> "OK", json |-> <<>>]

Outcome(g) ==
    [pc |-> pc[g], status |-> status[g], body |-> respBody[g]]

NoOutcome ==
    [pc |-> "none", status |-> NoStatus, body |-> NoBody]

(***************************************************************************)
(* Trip sheets (routing.service.ts).  optimizeRouteSequence,               *)
(* calculateRouteMetrics, validateRouteSequence (../utils/tsp) and         *)
(* getCoordinates (../utils/distanceCalculator) are not part of the        *)
(* sources; they follow spec.md sections 4.1 to 4.3.  Addresses lie on one *)
(* meridian, so that the distance of two of them is the difference of      *)
(* their latitudes.                                                        *)
(***************************************************************************)
Addresses ==
    { "A1", "A2", "A3" }

getCoordinates(address) ==
    [latitude |-> CASE address = "A1" -> 1
                    [] address = "A2" -> 2
                    [] OTHER -> 3,
     longitude |-> 0]

\* line 102: { latitude: 19.076, longitude: 72.8777 }, in whole degrees
DefaultStart ==
    [latitude |-> 19, longitude |-> 73]

\* spec.md 4.1 on the model's meridian (the default start is off it).
TripDistance(a, b) ==
    (IF a.latitude >= b.latitude THEN a.latitude - b.latitude
     ELSE b.latitude - a.latitude)
      + (IF a.longitude >= b.longitude THEN a.longitude - b.longitude
         ELSE b.longitude - a.longitude)

\* The rows findMany can return: ids are the positions 1, 2, ...
TripShipmentRows ==
    UNION { [1..n -> [originAddress : Addresses,
                      destinationAddress : Addresses]] :
                n \in 0..MaxTripShipments }

NoVehicle ==
    "null"

NoRoute ==
    <<>>

NoMetrics ==
    [totalDistance |-> 0, totalTime |-> 0, pickupCount |-> 0, dropCount |-> 0]

\* validation before line 111 has run
NoValidation ==
    [ran |-> FALSE, isValid |-> FALSE, errors |-> <<>>]

NoTripResult ==
    [waypoints |-> <<>>, metrics |-> NoMetrics, isValid |-> FALSE,
     errors |-> <<>>]

\* lines 74-97: a pickup and a drop waypoint per shipment, in row order
RECURSIVE BuildWaypoints(_, _)
BuildWaypoints(rows, i) ==
    IF i > Len(rows) THEN <<>>
    ELSE << [id |-> <<"pickup", i>>, type |-> "pickup", shipmentId |-> i,
             location |-> rows[i].originAddress,
             latitude |-> getCoordinates(rows[i].originAddress).latitude,
             longitude |-> getCoordinates(rows[i].originAddress).longitude],
            [id |-> <<"drop", i>>, type |-> "drop", shipmentId |-> i,
             location |-> rows[i].destinationAddress,
             latitude |-> getCoordinates(rows[i].destinationAddress).latitude,
             longitude |-> getCoordinates(rows[i].destinationAddress).longitude] >>
           \o BuildWaypoints(rows, i + 1)

\* lines 100-102
StartLocationOf(wps) ==
    IF Len(wps) > 0 /\ wps[1].latitude # 0
    THEN [latitude |-> wps[1].latitude, longitude |-> wps[1].longitude]
    ELSE DefaultStart

\* spec.md 4.2: index of the pool waypoint nearest to cur, the earliest on
\* a tie.
NearestWaypoint(cur, pool) ==
    CHOOSE i \in 1..Len(pool) :
        /\ \A j \in 1..Len(pool) :
              TripDistance(cur, pool[i]) <= TripDistance(cur, pool[j])
        /\ \A j \in 1..(i - 1) :
              TripDistance(cur, pool[j]) > TripDistance(cur, pool[i])

\* spec.md 4.2 and 3: greedy nearest neighbour; every waypoint gets its
\* order, its distance from the previous one and its arrival time (one
\* unit of time per unit of distance).
RECURSIVE SequenceWaypoints(_, _, _, _)
SequenceWaypoints(cur, pool, order, elapsed) ==
    IF pool = <<>> THEN <<>>
    ELSE LET i == NearestWaypoint(cur, pool)
             d == TripDistance(cur, pool[i])
             wp == [id |-> pool[i].id, type |-> pool[i].type,
                    shipmentId |-> pool[i].shipmentId,
                    location |-> pool[i].location,
                    latitude |-> pool[i].latitude,
                    longitude |-> pool[i].longitude,
                    order |-> order, distanceFromPrevious |-> d,
                    estimatedArrival |-> elapsed + d]
             rest == [j \in 1..(Len(pool) - 1) |->
                         IF j < i THEN pool[j] ELSE pool[j + 1]]
         IN  << wp >> \o SequenceWaypoints(wp, rest, order + 1, elapsed + d)

optimizeRouteSequence(wps, start) ==
    SequenceWaypoints(start, wps, 0, 0)

RECURSIVE SumDistance(_)
SumDistance(rt) ==
    IF rt = <<>> THEN 0
    ELSE rt[1].distanceFromPrevious + SumDistance(Tail(rt))

\* spec.md 4.3, metrics
calculateRouteMetrics(rt) ==
    [totalDistance |-> SumDistance(rt), totalTime |-> SumDistance(rt),
     pickupCount |-> Cardinality({ i \in 1..Len(rt) : rt[i].type = "pickup" }),
     dropCount |-> Cardinality({ i \in 1..Len(rt) : rt[i].type = "drop" })]

\* spec.md 4.3, validation: one error per waypoint whose id occurred before,
\* one per drop that is not after its pickup, one for an incomplete route.
RECURSIVE RouteErrors(_, _)
RouteErrors(rt, i) ==
    IF i > Len(rt) THEN <<>>
    ELSE (IF \E j \in 1..(i - 1) : rt[j].id = rt[i].id
          THEN << <<"duplicate", rt[i].id>> >> ELSE <<>>)
         \o (IF /\ rt[i].type = "drop"
                /\ \E j \in 1..Len(rt) :
                      /\ rt[j].type = "pickup"
                      /\ rt[j].shipmentId = rt[i].shipmentId
                      /\ rt[i].order <= rt[j].order
             THEN << <<"drop before pickup", rt[i].shipmentId>> >> ELSE <<>>)
         \o RouteErrors(rt, i + 1)

validateRouteSequence(rt) ==
    LET shipmentCount == Cardinality({ rt[i].shipmentId : i \in 1..Len(rt) })
        errors == RouteErrors(rt, 1)
                    \o (IF Len(rt) # 2 * shipmentCount
                        THEN << <<"incomplete", Len(rt)>> >> ELSE <<>>)
    IN  [ran |-> TRUE, isValid |-> errors = <<>>, errors |-> errors]

\* lines 114-121: what the response shows of a waypoint
FormatWaypoint(wp) ==
    [order |-> wp.order, shipmentId |-> wp.shipmentId, type |-> wp.type,
     location |-> wp.location,
     distanceFromPrevious |-> wp.distanceFromPrevious,
     eta |-> wp.estimatedArrival]

(***************************************************************************)
(* MLService (ml.service.ts)                                               *)
(***************************************************************************)
MlMethods ==
    { "healthCheck", "predictDeliveryTime", "optimizeRoute", "forecastDemand",
      "analyzeDriverPerformance", "detectAnomalies" }

\* An optional number: << >> is undefined (the field was not passed), << n >>
\* is the number n.
Absent ==
    << >>

\* The values of params.forecast_days.
ForecastDaysVals ==
    { Absent } \cup { << n >> : n \in -1..MaxForecastDays }

\* params.forecast_days || 7 (lines 157 and 164): undefined and 0 are falsy
DefaultForecastDays ==
    7

OrDefault(fd) ==
    IF fd = Absent \/ fd = << 0 >> THEN DefaultForecastDays ELSE fd[1]

\* The values a method resolves to: null, a boolean or an object.
Null ==
    [kind |-> "null"]

Boolean(b) ==
    [kind |-> "boolean", value |-> b]

\* What the ML service answers to GET /health in the field status.
HealthStatuses ==
    { "healthy", "degraded" }

\* response.data of a successful POST: the object the ML service computed.
UpstreamData(m) ==
    [kind |-> "object", from |-> "upstream", method |-> m]

\* Math.random() draws of generateFallbackForecast: the ends of each range.
BaseVolumes ==
    { 45, 64 }

NoiseVals ==
    { -5, 4 }

\* confidence in hundredths
ConfidenceVals ==
    { 80, 94 }

\* Mutant of NextVolume: the volume is not clamped by Math.max(10, ...).
NextVolumeUnclamped(volume, growing, noise) ==
    ((volume * (IF growing THEN 105 ELSE 95)) \div 100) + noise

\* line 186: Math.max(10, Math.floor(currentVolume * trendFactor) + noise)
NextVolume(volume, growing, noise) ==
    LET v == ((volume * (IF growing THEN 105 ELSE 95)) \div 100) + noise
    IN  IF v >= 10 THEN v ELSE 10

\* lines 196-198
Recommendations(growing) ==
    IF growing
    THEN << "Prepare for increased volume on weekend",
            "Consider adding temporary drivers" >>
    ELSE << "Focus on efficiency for lower volume days",
            "Schedule vehicle maintenance during downtime" >>

(***************************************************************************)
(* Shipment server actions (src/unnamed/part_000): tables and form data    *)
(***************************************************************************)
DriverIds ==
    { "D1", "D2" }

VehicleIds ==
    { "V1" }

\* ShipmentStatus (@/lib/types/database): the statuses the actions name
ShipmentStatuses ==
    { "in_transit", "delivered", "cancelled" }

\* null in a column or a local
NullValue ==
    "null"

\* The text of a coordinate field of the form.
CoordTexts ==
    { "", "0", "18.52" }

\* parseFloat(text) || null (lines 20-23): NaN and 0 are falsy
ParseFloatOrNull(text) ==
    IF text = "" \/ text = "0" THEN NullValue ELSE text

\* The form a dispatcher submits with a driver and a vehicle.
ValidForm(d, v) ==
    [start_location |-> "Pune", destination |-> "Mumbai",
     start_location_lat |-> "18.52", start_location_lng |-> "18.52",
     destination_lat |-> "18.52", destination_lng |-> "18.52",
     driver_id |-> d, vehicle_id |-> v]

TextFields ==
    { "start_location", "destination", "driver_id", "vehicle_id" }

CoordFields ==
    { "start_location_lat", "start_location_lng", "destination_lat",
      "destination_lng" }

\* The forms submitted: complete ones, and ones in which one field is empty
\* or one coordinate is 0.
Forms ==
    { ValidForm(d, v) : d \in DriverIds, v \in VehicleIds }
      \cup { [ValidForm("D1", "V1") EXCEPT ![f] = ""] : f \in TextFields }
      \cup { [ValidForm("D1", "V1") EXCEPT ![f] = ""] :
                f \in { "start_location_lat", "destination_lng" } }
      \cup { [ValidForm("D1", "V1") EXCEPT ![f] = "0"] :
                f \in { "start_location_lng", "destination_lat" } }

\* line 28
MissingRequired(form) ==
    \E f \in TextFields : form[f] = ""

\* line 32
InvalidLocation(form) ==
    \E f \in CoordFields : ParseFloatOrNull(form[f]) = NullValue

\* routeData: null, or the route Mapbox answered with
RouteDatas ==
    { NullValue, "route" }

NoCall ==
    [name |-> "", form |-> ValidForm("", ""), shipmentId |-> 0,
     newStatus |-> ""]

NoShipment ==
    [id |-> 0, status |-> NullValue, driver_id |-> NullValue,
     vehicle_id |-> NullValue]

NoResult ==
    [kind |-> "none", error |-> ""]

Success ==
    [kind |-> "success", error |-> ""]

ErrorResult(msg) ==
    [kind |-> "error", error |-> msg]

IdleDriver ==
    [status |-> "idle"]

IdleVehicle ==
    [status |-> "idle", latitude |-> NullValue, longitude |-> NullValue,
     current_route |-> NullValue, route_index |-> 0, eta |-> NullValue]

\* The row of table shipments with this id, NoShipment if there is none.
RowOf(table, id) ==
    IF \E r \in table : r.id = id
    THEN CHOOSE r \in table : r.id = id
    ELSE NoShipment

Tables ==
    [shipments |-> shipmentsTable, drivers |-> driversTable,
     vehicles |-> vehiclesTable]

\* No call of the backend services is in progress and none has been made.
BackendInit ==
    /\ tripPc = "idle"
    /\ tripShipments = <<>>
    /\ tripVehicle = NoVehicle
    /\ waypoints = <<>>
    /\ startLocation = DefaultStart
    /\ optimized = NoRoute
    /\ metrics = NoMetrics
    /\ validation = NoValidation
    /\ tripResult = NoTripResult
    /\ mlPc = "idle"
    /\ mlMethod = ""
    /\ forecast_days = Absent
    /\ mlCaught = FALSE
    /\ days = 0
    /\ isGrowing = FALSE
    /\ currentVolume = 0
    /\ forecasts = <<>>
    /\ mlResult = Null
    /\ shipmentsTable = {}
    /\ driversTable = [d \in DriverIds |-> IdleDriver]
    /\ vehiclesTable = [v \in VehicleIds |-> IdleVehicle]
    /\ nextRowId = 1
    /\ shipPc = "idle"
    /\ shipCall = NoCall
    /\ routeData = NullValue
    /\ shipment = NoShipment
    /\ shipResult = NoResult
    /\ writeFailed = FALSE
    /\ atCall = [shipments |-> {},
                 drivers |-> [d \in DriverIds |-> IdleDriver],
                 vehicles |-> [v \in VehicleIds |-> IdleVehicle]]

(***************************************************************************)
(* Init: every goroutine waits for a request; no local holds anything.     *)
(***************************************************************************)
Init ==
    /\ pc = [g \in Procs |-> "idle"]
    /\ endpoint = [g \in Procs |-> ""]
    /\ method = [g \in Procs |-> ""]
    /\ body = [g \in Procs |-> MalformedBody]
    /\ bodyRead = [g \in Procs |-> FALSE]
    /\ err = [g \in Procs |-> "unset"]
    /\ req = [g \in Procs |-> ZeroOptimizationRequest]
    /\ remaining = [g \in Procs |-> NilSlice]
    /\ route = [g \in Procs |-> <<>>]
    /\ current = [g \in Procs |-> ZeroCoordinate]
    /\ nearestIdx = [g \in Procs |-> -1]
    /\ minDist = [g \in Procs |-> MaxFloat64]
    /\ loadReq = [g \in Procs |-> ZeroLoadRequest]
    /\ sorted = [g \in Procs |-> <<>>]
    /\ next = [g \in Procs |-> 0]
    /\ remainingCap = [g \in Procs |-> <<>>]
    /\ assignments = [g \in Procs |-> <<>>]
    /\ unassigned = [g \in Procs |-> <<>>]
    /\ solverCalls = [g \in Procs |-> 0]
    /\ status = [g \in Procs |-> NoStatus]
    /\ respBody = [g \in Procs |-> NoBody]
    /\ calls = [g \in Procs |-> 0]
    /\ prevOut = [g \in Procs |-> NoOutcome]
    /\ BackendInit

\* The variables of the request and of its ResponseWriter.
requestVars ==
    << endpoint, method, body, calls, prevOut >>

tspVars ==
    << remaining, route, current, nearestIdx, minDist >>

allocVars ==
    << sorted, next, remainingCap, assignments, unassigned >>

\* The locals of the handler and solvers of the other endpoint.
routeLocals ==
    << req, tspVars >>

loadLocals ==
    << loadReq, allocVars >>

(***************************************************************************)
(* The server accepts a request and hands it to a goroutine                *)
(* (cmd/server/main.go lines 14-16 register the handlers).                 *)
(***************************************************************************)
ReceiveOptimize(g) ==
    /\ pc[g] = "idle"
    /\ \E m \in Methods, b \in RouteBodies :
          /\ method' = [method EXCEPT ![g] = m]
          /\ body' = [body EXCEPT ![g] = b]
    /\ endpoint' = [endpoint EXCEPT ![g] = "/optimize"]
    /\ calls' = [calls EXCEPT ![g] = 1]
    /\ pc' = [pc EXCEPT ![g] = "serve"]
    /\ UNCHANGED << backendVars, loadLocals, bodyRead, err, req, tspVars, solverCalls, status,
                    respBody, prevOut >>

\* The client sends the identical solver request again.  The server gives it
\* a new Request (unread body) and a new ResponseWriter; whatever the previous
\* call left in memory is still there.
Resubmit(g) ==
    /\ pc[g] \in { "done", "panicked" }
    /\ endpoint[g] \in { "/optimize", "/optimize-load" }
    /\ calls[g] < MaxCalls
    /\ prevOut' = [prevOut EXCEPT ![g] = Outcome(g)]
    /\ calls' = [calls EXCEPT ![g] = @ + 1]
    /\ bodyRead' = [bodyRead EXCEPT ![g] = FALSE]
    /\ solverCalls' = [solverCalls EXCEPT ![g] = 0]
    /\ status' = [status EXCEPT ![g] = NoStatus]
    /\ respBody' = [respBody EXCEPT ![g] = NoBody]
    /\ pc' = [pc EXCEPT ![g] = "serve"]
    /\ UNCHANGED << backendVars, loadLocals, endpoint, method, body, err, req, tspVars >>

\* http.Error(w, msg, code); return
HttpError(g, msg, code) ==
    /\ status' = [status EXCEPT ![g] = code]
    /\ respBody' = [respBody EXCEPT ![g] = ErrorBody(msg)]
    /\ pc' = [pc EXCEPT ![g] = "done"]

(***************************************************************************)
(* OptimizeRouteHandler (handlers.go lines 10-26; optimizeHandler of       *)
(* part_003 lines 75-91 is the same code)                                  *)
(***************************************************************************)
\* lines 11-14
RouteMethodNotAllowed(g) ==
    /\ pc[g] = "serve"
    /\ endpoint[g] = "/optimize"
    /\ method[g] # MethodPost
    /\ HttpError(g, "Method not allowed", StatusMethodNotAllowed)
    /\ UNCHANGED << backendVars, loadLocals, requestVars, bodyRead, err, req, tspVars, solverCalls >>

RouteMethodAllowed(g) ==
    /\ pc[g] = "serve"
    /\ endpoint[g] = "/optimize"
    /\ method[g] = MethodPost
    /\ pc' = [pc EXCEPT ![g] = "route_decode"]
    /\ UNCHANGED << backendVars, loadLocals, requestVars, bodyRead, err, req, tspVars, solverCalls,
                    status, respBody >>

\* lines 16-20, Decode fails
RouteDecodeError(g) ==
    /\ pc[g] = "route_decode"
    /\ DecodeError(body[g])
    /\ bodyRead' = [bodyRead EXCEPT ![g] = TRUE]
    /\ err' = [err EXCEPT ![g] = "error"]
    /\ req' = [req EXCEPT ![g] = ZeroOptimizationRequest]
    /\ HttpError(g, "Invalid request body", StatusBadRequest)
    /\ UNCHANGED << backendVars, loadLocals, requestVars, tspVars, solverCalls >>

\* lines 16-17, Decode succeeds; line 22 calls the solver
RouteDecodeOk(g) ==
    /\ pc[g] = "route_decode"
    /\ ~DecodeError(body[g])
    /\ bodyRead' = [bodyRead EXCEPT ![g] = TRUE]
    /\ err' = [err EXCEPT ![g] = "nil"]
    /\ req' = [req EXCEPT ![g] =
                  DecodeOptimizationRequest(ZeroOptimizationRequest, body[g])]
    /\ solverCalls' = [solverCalls EXCEPT ![g] = @ + 1]
    /\ pc' = [pc EXCEPT ![g] = "tsp_entry"]
    /\ UNCHANGED << backendVars, loadLocals, requestVars, tspVars, status, respBody >>

(***************************************************************************)
(* SolveTSPNearestNeighbor (part_003 lines 41-73)                          *)
(***************************************************************************)
\* lines 42-44
TspEmpty(g) ==
    /\ pc[g] = "tsp_entry"
    /\ Len(req[g].Stops) = 0
    /\ route' = [route EXCEPT ![g] = <<>>]
    /\ pc' = [pc EXCEPT ![g] = "route_encode"]
    /\ UNCHANGED << backendVars, loadLocals, requestVars, bodyRead, err, req, remaining, current,
                    nearestIdx, minDist, solverCalls, status, respBody >>

\* Mutant of TspInit: route is not made anew by the call (as a package-level
\* slice would be), so it still holds what the previous call appended.
TspInitKeepsRoute(g) ==
    /\ pc[g] = "tsp_entry"
    /\ Len(req[g].Stops) # 0
    /\ remaining' = [remaining EXCEPT ![g] = CopyStops(req[g].Stops)]
    /\ current' = [current EXCEPT ![g] = req[g].Start]
    /\ pc' = [pc EXCEPT ![g] = "tsp_loop"]
    /\ UNCHANGED << backendVars, loadLocals, requestVars, bodyRead, err, req, route,
                    nearestIdx, minDist, solverCalls, status, respBody >>

\* lines 46-50
TspInit(g) ==
    /\ pc[g] = "tsp_entry"
    /\ Len(req[g].Stops) # 0
    /\ remaining' = [remaining EXCEPT ![g] = CopyStops(req[g].Stops)]
    /\ route' = [route EXCEPT ![g] = <<>>]
    /\ current' = [current EXCEPT ![g] = req[g].Start]
    /\ pc' = [pc EXCEPT ![g] = "tsp_loop"]
    /\ UNCHANGED << backendVars, loadLocals, requestVars, bodyRead, err, req, nearestIdx, minDist,
                    solverCalls, status, respBody >>

\* lines 52-62: the loop test holds, the inner loop scans remaining
TspScan(g) ==
    /\ pc[g] = "tsp_loop"
    /\ remaining[g].len > 0
    /\ LET r == NearestScan(current[g], Elems(remaining[g], req[g].Stops))
       IN  /\ nearestIdx' = [nearestIdx EXCEPT ![g] = r.nearestIdx]
           /\ minDist' = [minDist EXCEPT ![g] = r.minDist]
    /\ pc' = [pc EXCEPT ![g] = "tsp_pick"]
    /\ UNCHANGED << backendVars, loadLocals, requestVars, bodyRead, err, req, remaining, route,
                    current, solverCalls, status, respBody >>

\* Mutant of TspPick: current is one package-level variable, written by
\* every goroutine and read by every scan.
TspPickSharedCurrent(g) ==
    /\ pc[g] = "tsp_pick"
    /\ nearestIdx[g] >= 0
    /\ nearestIdx[g] < remaining[g].len
    /\ LET a == BackingArray(remaining[g], req[g].Stops)
           nextStop == a[nearestIdx[g] + 1]
           shifted == ShiftDown(a, remaining[g].len, nearestIdx[g])
       IN  /\ route' = [route EXCEPT ![g] = Append(@, nextStop)]
           /\ current' = [h \in DOMAIN current |-> nextStop]
           /\ IF remaining[g].base = "own"
              THEN /\ remaining' = [remaining EXCEPT ![g] =
                          [@ EXCEPT !.arr = shifted, !.len = @ - 1]]
                   /\ req' = req
              ELSE /\ remaining' = [remaining EXCEPT ![g] =
                          [@ EXCEPT !.len = @ - 1]]
                   /\ req' = [req EXCEPT ![g] = [@ EXCEPT !.Stops = shifted]]
    /\ pc' = [pc EXCEPT ![g] = "tsp_loop"]
    /\ UNCHANGED << backendVars, loadLocals, requestVars, bodyRead, err, nearestIdx, minDist,
                    solverCalls, status, respBody >>

\* lines 64-69
TspPick(g) ==
    /\ pc[g] = "tsp_pick"
    /\ nearestIdx[g] >= 0
    /\ nearestIdx[g] < remaining[g].len
    /\ LET a == BackingArray(remaining[g], req[g].Stops)
           nextStop == a[nearestIdx[g] + 1]
           shifted == ShiftDown(a, remaining[g].len, nearestIdx[g])
       IN  /\ route' = [route EXCEPT ![g] = Append(@, nextStop)]
           /\ current' = [current EXCEPT ![g] = nextStop]
           /\ IF remaining[g].base = "own"
              THEN /\ remaining' = [remaining EXCEPT ![g] =
                          [@ EXCEPT !.arr = shifted, !.len = @ - 1]]
                   /\ req' = req
              ELSE /\ remaining' = [remaining EXCEPT ![g] =
                          [@ EXCEPT !.len = @ - 1]]
                   /\ req' = [req EXCEPT ![g] = [@ EXCEPT !.Stops = shifted]]
    /\ pc' = [pc EXCEPT ![g] = "tsp_loop"]
    /\ UNCHANGED << backendVars, loadLocals, requestVars, bodyRead, err, nearestIdx, minDist,
                    solverCalls, status, respBody >>

\* line 64 with nearestIdx = -1: index out of range, a run-time panic.
\* net/http recovers it and closes the connection; nothing is written.
TspPanic(g) ==
    /\ pc[g] = "tsp_pick"
    /\ ~(nearestIdx[g] >= 0 /\ nearestIdx[g] < remaining[g].len)
    /\ pc' = [pc EXCEPT ![g] = "panicked"]
    /\ UNCHANGED << backendVars, loadLocals, requestVars, bodyRead, err, req, tspVars, solverCalls,
                    status, respBody >>

\* line 52 fails, line 72
TspReturn(g) ==
    /\ pc[g] = "tsp_loop"
    /\ remaining[g].len = 0
    /\ pc' = [pc EXCEPT ![g] = "route_encode"]
    /\ UNCHANGED << backendVars, loadLocals, requestVars, bodyRead, err, req, tspVars, solverCalls,
                    status, respBody >>

\* handlers.go lines 24-25
RouteEncode(g) ==
    /\ pc[g] = "route_encode"
    /\ status' = [status EXCEPT ![g] = StatusOK]
    /\ respBody' = [respBody EXCEPT ![g] = JsonBody(route[g])]
    /\ pc' = [pc EXCEPT ![g] = "done"]
    /\ UNCHANGED << backendVars, loadLocals, requestVars, bodyRead, err, req, tspVars, solverCalls >>

(***************************************************************************)
(* OptimizeLoadHandler (handlers.go lines 28-52)                           *)
(***************************************************************************)
ReceiveOptimizeLoad(g) ==
    /\ pc[g] = "idle"
    /\ \E m \in Methods, b \in LoadBodies :
          /\ method' = [method EXCEPT ![g] = m]
          /\ body' = [body EXCEPT ![g] = b]
    /\ endpoint' = [endpoint EXCEPT ![g] = "/optimize-load"]
    /\ calls' = [calls EXCEPT ![g] = 1]
    /\ pc' = [pc EXCEPT ![g] = "serve"]
    /\ UNCHANGED << backendVars, routeLocals, loadLocals, bodyRead, err, solverCalls,
                    status, respBody, prevOut >>

\* lines 29-32
LoadMethodNotAllowed(g) ==
    /\ pc[g] = "serve"
    /\ endpoint[g] = "/optimize-load"
    /\ method[g] # MethodPost
    /\ HttpError(g, "Method not allowed", StatusMethodNotAllowed)
    /\ UNCHANGED << backendVars, routeLocals, loadLocals, requestVars, bodyRead, err,
                    solverCalls >>

LoadMethodAllowed(g) ==
    /\ pc[g] = "serve"
    /\ endpoint[g] = "/optimize-load"
    /\ method[g] = MethodPost
    /\ pc' = [pc EXCEPT ![g] = "load_decode"]
    /\ UNCHANGED << backendVars, routeLocals, loadLocals, requestVars, bodyRead, err,
                    solverCalls, status, respBody >>

\* lines 34-38, Decode fails
LoadDecodeError(g) ==
    /\ pc[g] = "load_decode"
    /\ DecodeError(body[g])
    /\ bodyRead' = [bodyRead EXCEPT ![g] = TRUE]
    /\ err' = [err EXCEPT ![g] = "error"]
    /\ loadReq' = [loadReq EXCEPT ![g] = ZeroLoadRequest]
    /\ HttpError(g, "Invalid request body", StatusBadRequest)
    /\ UNCHANGED << backendVars, routeLocals, allocVars, requestVars, solverCalls >>

\* lines 34-35, Decode succeeds
LoadDecodeOk(g) ==
    /\ pc[g] = "load_decode"
    /\ ~DecodeError(body[g])
    /\ bodyRead' = [bodyRead EXCEPT ![g] = TRUE]
    /\ err' = [err EXCEPT ![g] = "nil"]
    /\ loadReq' = [loadReq EXCEPT ![g] =
                      DecodeLoadRequest(ZeroLoadRequest, body[g])]
    /\ pc' = [pc EXCEPT ![g] = "load_validate"]
    /\ UNCHANGED << backendVars, routeLocals, allocVars, requestVars, solverCalls, status,
                    respBody >>

\* lines 41-46, a shipment is rejected
LoadValidateError(g) ==
    /\ pc[g] = "load_validate"
    /\ InvalidShipment(loadReq[g].Shipments)
    /\ HttpError(g, "Shipment weight must be positive", StatusBadRequest)
    /\ UNCHANGED << backendVars, routeLocals, loadLocals, requestVars, bodyRead, err,
                    solverCalls >>

\* lines 41-46 pass every shipment; line 48 calls the allocator
LoadValidateOk(g) ==
    /\ pc[g] = "load_validate"
    /\ ~InvalidShipment(loadReq[g].Shipments)
    /\ solverCalls' = [solverCalls EXCEPT ![g] = @ + 1]
    /\ pc' = [pc EXCEPT ![g] = "alloc_entry"]
    /\ UNCHANGED << backendVars, routeLocals, loadLocals, requestVars, bodyRead, err,
                    status, respBody >>

(***************************************************************************)
(* solver.OptimizeFleetAllocation (spec.md section 4.4)                    *)
(***************************************************************************)
AllocInit(g) ==
    /\ pc[g] = "alloc_entry"
    /\ sorted' = [sorted EXCEPT ![g] = SortByWeightDesc(loadReq[g].Shipments)]
    /\ next' = [next EXCEPT ![g] = 0]
    /\ remainingCap' = [remainingCap EXCEPT ![g] =
            [v \in 1..Len(loadReq[g].Vehicles) |->
                loadReq[g].Vehicles[v].CapacityKg]]
    /\ assignments' = [assignments EXCEPT ![g] =
            [v \in 1..Len(loadReq[g].Vehicles) |-> <<>>]]
    /\ unassigned' = [unassigned EXCEPT ![g] = <<>>]
    /\ pc' = [pc EXCEPT ![g] = "alloc_loop"]
    /\ UNCHANGED << backendVars, routeLocals, loadReq, requestVars, bodyRead, err,
                    solverCalls, status, respBody >>

\* One shipment: the best-fitting vehicle takes it.
AllocAssign(g) ==
    /\ pc[g] = "alloc_loop"
    /\ next[g] < Len(sorted[g])
    /\ LET s == sorted[g][next[g] + 1]
           v == BestFit(remainingCap[g], s.WeightKg)
       IN  /\ v # 0
           /\ assignments' = [assignments EXCEPT ![g] =
                    [@ EXCEPT ![v] = Append(@, s.ID)]]
           /\ remainingCap' = [remainingCap EXCEPT ![g] =
                    [@ EXCEPT ![v] = @ - s.WeightKg]]
    /\ next' = [next EXCEPT ![g] = @ + 1]
    /\ UNCHANGED << backendVars, routeLocals, loadReq, sorted, unassigned, requestVars,
                    bodyRead, err, solverCalls, status, respBody, pc >>

\* Mutant of AllocUnassigned: the shipment that fits nowhere is skipped.
AllocUnassignedSkips(g) ==
    /\ pc[g] = "alloc_loop"
    /\ next[g] < Len(sorted[g])
    /\ BestFit(remainingCap[g], sorted[g][next[g] + 1].WeightKg) = 0
    /\ next' = [next EXCEPT ![g] = @ + 1]
    /\ UNCHANGED << backendVars, routeLocals, loadReq, sorted, remainingCap, assignments,
                    unassigned, requestVars, bodyRead, err, solverCalls,
                    status, respBody, pc >>

\* One shipment: no vehicle has room for it.
AllocUnassigned(g) ==
    /\ pc[g] = "alloc_loop"
    /\ next[g] < Len(sorted[g])
    /\ LET s == sorted[g][next[g] + 1]
       IN  /\ BestFit(remainingCap[g], s.WeightKg) = 0
           /\ unassigned' = [unassigned EXCEPT ![g] = Append(@, s.ID)]
    /\ next' = [next EXCEPT ![g] = @ + 1]
    /\ UNCHANGED << backendVars, routeLocals, loadReq, sorted, remainingCap, assignments,
                    requestVars, bodyRead, err, solverCalls, status,
                    respBody, pc >>

AllocReturn(g) ==
    /\ pc[g] = "alloc_loop"
    /\ next[g] = Len(sorted[g])
    /\ pc' = [pc EXCEPT ![g] = "load_encode"]
    /\ UNCHANGED << backendVars, routeLocals, loadLocals, requestVars, bodyRead, err,
                    solverCalls, status, respBody >>

\* handlers.go lines 50-51
LoadEncode(g) ==
    /\ pc[g] = "load_encode"
    /\ status' = [status EXCEPT ![g] = StatusOK]
    /\ respBody' = [respBody EXCEPT ![g] =
            JsonBody([assignments |-> assignments[g],
                      unassigned |-> unassigned[g]])]
    /\ pc' = [pc EXCEPT ![g] = "done"]
    /\ UNCHANGED << backendVars, routeLocals, loadLocals, requestVars, bodyRead, err,
                    solverCalls >>

(***************************************************************************)
(* HealthHandler (handlers.go lines 54-57)                                 *)
(***************************************************************************)
\* What a client may send to /health: the handler reads none of it.
HealthBodies ==
    { MalformedBody,
      [kind |-> "json", hasStart |-> FALSE, start |-> ZeroCoordinate,
       hasStops |-> FALSE, stops |-> <<>>] }

\* A /health request arrives, as the first request or after the server has
\* finished with (or panicked on) an earlier request; what that request left
\* in memory is still there.
ReceiveHealth(g) ==
    /\ pc[g] \in { "idle", "done", "panicked" }
    /\ endpoint[g] # "/health"
    /\ \E m \in Methods, b \in HealthBodies :
          /\ method' = [method EXCEPT ![g] = m]
          /\ body' = [body EXCEPT ![g] = b]
    /\ endpoint' = [endpoint EXCEPT ![g] = "/health"]
    /\ prevOut' = [prevOut EXCEPT ![g] = Outcome(g)]
    /\ calls' = [calls EXCEPT ![g] = 1]
    /\ bodyRead' = [bodyRead EXCEPT ![g] = FALSE]
    /\ solverCalls' = [solverCalls EXCEPT ![g] = 0]
    /\ status' = [status EXCEPT ![g] = NoStatus]
    /\ respBody' = [respBody EXCEPT ![g] = NoBody]
    /\ pc' = [pc EXCEPT ![g] = "serve"]
    /\ UNCHANGED << backendVars, routeLocals, loadLocals, err >>

\* Mutant of HealthHandler: the handler checks the method as the two other
\* handlers do.
HealthHandlerGetOnly(g) ==
    /\ pc[g] = "serve"
    /\ endpoint[g] = "/health"
    /\ IF method[g] = "GET"
       THEN /\ status' = [status EXCEPT ![g] = StatusOK]
            /\ respBody' = [respBody EXCEPT ![g] = HealthBody]
            /\ pc' = [pc EXCEPT ![g] = "done"]
       ELSE HttpError(g, "Method not allowed", StatusMethodNotAllowed)
    /\ UNCHANGED << backendVars, routeLocals, loadLocals, requestVars, bodyRead, err,
                    solverCalls >>

\* lines 55-56
HealthHandler(g) ==
    /\ pc[g] = "serve"
    /\ endpoint[g] = "/health"
    /\ status' = [status EXCEPT ![g] = StatusOK]
    /\ respBody' = [respBody EXCEPT ![g] = HealthBody]
    /\ pc' = [pc EXCEPT ![g] = "done"]
    /\ UNCHANGED << backendVars, routeLocals, loadLocals, requestVars, bodyRead, err,
                    solverCalls >>

Next ==
    \/ \E g \in DOMAIN pc : ReceiveOptimize(g)
    \/ \E g \in DOMAIN pc : ReceiveOptimizeLoad(g)
    \/ \E g \in DOMAIN pc : LoadMethodNotAllowed(g)
    \/ \E g \in DOMAIN pc : LoadMethodAllowed(g)
    \/ \E g \in DOMAIN pc : LoadDecodeError(g)
    \/ \E g \in DOMAIN pc : LoadDecodeOk(g)
    \/ \E g \in DOMAIN pc : LoadValidateError(g)
    \/ \E g \in DOMAIN pc : LoadValidateOk(g)
    \/ \E g \in DOMAIN pc : AllocInit(g)
    \/ \E g \in DOMAIN pc : AllocAssign(g)
    \/ \E g \in DOMAIN pc : AllocUnassigned(g)
    \/ \E g \in DOMAIN pc : AllocReturn(g)
    \/ \E g \in DOMAIN pc : LoadEncode(g)
    \/ \E g \in DOMAIN pc : Resubmit(g)
    \/ \E g \in DOMAIN pc : RouteMethodNotAllowed(g)
    \/ \E g \in DOMAIN pc : RouteMethodAllowed(g)
    \/ \E g \in DOMAIN pc : RouteDecodeError(g)
    \/ \E g \in DOMAIN pc : RouteDecodeOk(g)
    \/ \E g \in DOMAIN pc : TspEmpty(g)
    \/ \E g \in DOMAIN pc : TspInit(g)
    \/ \E g \in DOMAIN pc : TspScan(g)
    \/ \E g \in DOMAIN pc : TspPick(g)
    \/ \E g \in DOMAIN pc : TspPanic(g)
    \/ \E g \in DOMAIN pc : TspReturn(g)
    \/ \E g \in DOMAIN pc : RouteEncode(g)
    \/ \E g \in DOMAIN pc : ReceiveHealth(g)
    \/ \E g \in DOMAIN pc : HealthHandler(g)

Spec ==
    Init /\ [][Next]_vars

(***************************************************************************)
(* Concurrent requests.  http.ListenAndServe (main.go line 26) serves      *)
(* every connection on a goroutine of its own, so two /optimize requests   *)
(* run OptimizeRouteHandler and SolveTSPNearestNeighbor at the same time,  *)
(* their steps interleaved in any order.                                   *)
(***************************************************************************)
ConcProcs ==
    { "g1", "g2" }

ConcStarts ==
    { Coordinate(<<"0", "0">>, ""), Coordinate(<<"1e308", "0">>, "") }

ConcStops ==
    { Coordinate(<<"0", "1">>, ""), Coordinate(<<"1", "0">>, "A"),
      Coordinate(<<"-1e308", "0">>, "") }

ConcBodies ==
    { MalformedBody }
      \cup { [kind |-> "json", hasStart |-> TRUE, start |-> s,
              hasStops |-> TRUE, stops |-> ss] :
                  s \in ConcStarts, ss \in SeqsUpTo(ConcStops, MaxConcStops) }

InitConc ==
    /\ pc = [g \in ConcProcs |-> "idle"]
    /\ endpoint = [g \in ConcProcs |-> ""]
    /\ method = [g \in ConcProcs |-> ""]
    /\ body = [g \in ConcProcs |-> MalformedBody]
    /\ bodyRead = [g \in ConcProcs |-> FALSE]
    /\ err = [g \in ConcProcs |-> "unset"]
    /\ req = [g \in ConcProcs |-> ZeroOptimizationRequest]
    /\ remaining = [g \in ConcProcs |-> NilSlice]
    /\ route = [g \in ConcProcs |-> <<>>]
    /\ current = [g \in ConcProcs |-> ZeroCoordinate]
    /\ nearestIdx = [g \in ConcProcs |-> -1]
    /\ minDist = [g \in ConcProcs |-> MaxFloat64]
    /\ loadReq = [g \in ConcProcs |-> ZeroLoadRequest]
    /\ sorted = [g \in ConcProcs |-> <<>>]
    /\ next = [g \in ConcProcs |-> 0]
    /\ remainingCap = [g \in ConcProcs |-> <<>>]
    /\ assignments = [g \in ConcProcs |-> <<>>]
    /\ unassigned = [g \in ConcProcs |-> <<>>]
    /\ solverCalls = [g \in ConcProcs |-> 0]
    /\ status = [g \in ConcProcs |-> NoStatus]
    /\ respBody = [g \in ConcProcs |-> NoBody]
    /\ calls = [g \in ConcProcs |-> 0]
    /\ prevOut = [g \in ConcProcs |-> NoOutcome]
    /\ BackendInit

\* A connection's goroutine gets its /optimize request.
ReceiveConc(g) ==
    /\ pc[g] = "idle"
    /\ \E m \in Methods, b \in ConcBodies :
          /\ method' = [method EXCEPT ![g] = m]
          /\ body' = [body EXCEPT ![g] = b]
    /\ endpoint' = [endpoint EXCEPT ![g] = "/optimize"]
    /\ calls' = [calls EXCEPT ![g] = 1]
    /\ pc' = [pc EXCEPT ![g] = "serve"]
    /\ UNCHANGED << backendVars, loadLocals, bodyRead, err, req, tspVars, solverCalls, status,
                    respBody, prevOut >>

NextConc ==
    \/ \E g \in DOMAIN pc : ReceiveConc(g)
    \/ \E g \in DOMAIN pc : RouteMethodNotAllowed(g)
    \/ \E g \in DOMAIN pc : RouteMethodAllowed(g)
    \/ \E g \in DOMAIN pc : RouteDecodeError(g)
    \/ \E g \in DOMAIN pc : RouteDecodeOk(g)
    \/ \E g \in DOMAIN pc : TspEmpty(g)
    \/ \E g \in DOMAIN pc : TspInit(g)
    \/ \E g \in DOMAIN pc : TspScan(g)
    \/ \E g \in DOMAIN pc : TspPick(g)
    \/ \E g \in DOMAIN pc : TspPanic(g)
    \/ \E g \in DOMAIN pc : TspReturn(g)
    \/ \E g \in DOMAIN pc : RouteEncode(g)

SpecConc ==
    InitConc /\ [][NextConc]_vars

(***************************************************************************)
(* optimizeTripSheetRoute (routing.service.ts lines 45-133)                *)
(***************************************************************************)
\* A caller invokes optimizeTripSheetRoute(vehicleId, shipmentIds); the
\* locals of the call are new.
TripCall ==
    /\ tripPc \in { "idle", "returned", "thrown" }
    /\ tripPc' = "fetch"
    /\ tripShipments' = <<>>
    /\ tripVehicle' = NoVehicle
    /\ waypoints' = <<>>
    /\ startLocation' = DefaultStart
    /\ optimized' = NoRoute
    /\ metrics' = NoMetrics
    /\ validation' = NoValidation
    /\ tripResult' = NoTripResult
    /\ UNCHANGED notTrip

\* lines 52-67: the two queries answer
TripFetch ==
    /\ tripPc = "fetch"
    /\ \E rows \in TripShipmentRows, v \in { NoVehicle, "vehicle" } :
          /\ tripShipments' = rows
          /\ tripVehicle' = v
    /\ tripPc' = "fetched"
    /\ UNCHANGED << notTrip, waypoints, startLocation, optimized, metrics,
                    validation, tripResult >>

\* lines 52-67 and 129-132: a query rejects, the catch block rethrows
TripFetchThrows ==
    /\ tripPc = "fetch"
    /\ tripPc' = "thrown"
    /\ UNCHANGED << notTrip, tripShipments, tripVehicle, waypoints,
                    startLocation, optimized, metrics, validation, tripResult >>

\* lines 69-71
TripVehicleNotFound ==
    /\ tripPc = "fetched"
    /\ tripVehicle = NoVehicle
    /\ tripPc' = "thrown"
    /\ UNCHANGED << notTrip, tripShipments, tripVehicle, waypoints,
                    startLocation, optimized, metrics, validation, tripResult >>

\* lines 73-102
TripBuildWaypoints ==
    /\ tripPc = "fetched"
    /\ tripVehicle # NoVehicle
    /\ waypoints' = BuildWaypoints(tripShipments, 1)
    /\ startLocation' = StartLocationOf(BuildWaypoints(tripShipments, 1))
    /\ tripPc' = "optimize"
    /\ UNCHANGED << notTrip, tripShipments, tripVehicle, optimized,
                    metrics, validation, tripResult >>

\* line 105
TripOptimize ==
    /\ tripPc = "optimize"
    /\ optimized' = optimizeRouteSequence(waypoints, startLocation)
    /\ tripPc' = "metrics"
    /\ UNCHANGED << notTrip, tripShipments, tripVehicle, waypoints,
                    startLocation, metrics, validation, tripResult >>

\* line 108
TripMetrics ==
    /\ tripPc = "metrics"
    /\ metrics' = calculateRouteMetrics(optimized)
    /\ tripPc' = "validate"
    /\ UNCHANGED << notTrip, tripShipments, tripVehicle, waypoints,
                    startLocation, optimized, validation, tripResult >>

\* line 111
TripValidate ==
    /\ tripPc = "validate"
    /\ validation' = validateRouteSequence(optimized)
    /\ tripPc' = "format"
    /\ UNCHANGED << notTrip, tripShipments, tripVehicle, waypoints,
                    startLocation, optimized, metrics, tripResult >>

\* Mutant of TripReturn: a route that failed validation is not returned, the
\* call throws instead.
TripReturnOnlyValid ==
    /\ tripPc = "format"
    /\ IF validation.isValid
       THEN /\ tripResult' =
                  [waypoints |-> [i \in 1..Len(optimized) |->
                                     FormatWaypoint(optimized[i])],
                   metrics |-> metrics,
                   isValid |-> validation.isValid,
                   errors |-> validation.errors]
            /\ tripPc' = "returned"
       ELSE /\ tripResult' = tripResult
            /\ tripPc' = "thrown"
    /\ UNCHANGED << notTrip, tripShipments, tripVehicle, waypoints,
                    startLocation, optimized, metrics, validation >>

\* lines 114-128
TripReturn ==
    /\ tripPc = "format"
    /\ tripResult' =
          [waypoints |-> [i \in 1..Len(optimized) |->
                             FormatWaypoint(optimized[i])],
           metrics |-> metrics,
           isValid |-> validation.isValid,
           errors |-> validation.errors]
    /\ tripPc' = "returned"
    /\ UNCHANGED << notTrip, tripShipments, tripVehicle, waypoints,
                    startLocation, optimized, metrics, validation >>

NextTrip ==
    \/ TripCall
    \/ TripFetch
    \/ TripFetchThrows
    \/ TripVehicleNotFound
    \/ TripBuildWaypoints
    \/ TripOptimize
    \/ TripMetrics
    \/ TripValidate
    \/ TripReturn

SpecTrip ==
    Init /\ [][NextTrip]_vars

(***************************************************************************)
(* The methods of MLService (ml.service.ts lines 86-247)                   *)
(***************************************************************************)
\* A caller invokes a method of mlService.
MlCall ==
    /\ mlPc \in { "idle", "returned" }
    /\ \E m \in MlMethods :
          /\ mlMethod' = m
          /\ \E fd \in ForecastDaysVals :
                /\ m # "forecastDemand" => fd = Absent
                /\ forecast_days' = fd
    /\ mlCaught' = FALSE
    /\ days' = 0
    /\ isGrowing' = FALSE
    /\ currentVolume' = 0
    /\ forecasts' = <<>>
    /\ mlResult' = Null
    /\ mlPc' = "request"
    /\ UNCHANGED notMl

\* lines 88-89: the ML service answers the health check
HealthAnswers ==
    /\ mlPc = "request"
    /\ mlMethod = "healthCheck"
    /\ \E st \in HealthStatuses : mlResult' = Boolean(st = "healthy")
    /\ mlPc' = "returned"
    /\ UNCHANGED << notMl, mlMethod, forecast_days, mlCaught, days, isGrowing,
                    currentVolume, forecasts >>

\* lines 118, 139, 161, 222, 242: return response.data
UpstreamAnswers ==
    /\ mlPc = "request"
    /\ mlMethod # "healthCheck"
    /\ mlResult' = UpstreamData(mlMethod)
    /\ mlPc' = "returned"
    /\ UNCHANGED << notMl, mlMethod, forecast_days, mlCaught, days, isGrowing,
                    currentVolume, forecasts >>

\* The request fails (no answer, time-out, error status): the catch blocks
\* of lines 90-93, 119-122, 140-143, 223-226, 243-246
UpstreamFails ==
    /\ mlPc = "request"
    /\ mlMethod # "forecastDemand"
    /\ mlCaught' = TRUE
    /\ mlResult' = IF mlMethod = "healthCheck" THEN Boolean(FALSE) ELSE Null
    /\ mlPc' = "returned"
    /\ UNCHANGED << notMl, mlMethod, forecast_days, days, isGrowing,
                    currentVolume, forecasts >>

\* The request of forecastDemand fails: lines 162-164 call
\* generateFallbackForecast, lines 169-178 draw the trend and the base volume
ForecastFallback ==
    /\ mlPc = "request"
    /\ mlMethod = "forecastDemand"
    /\ mlCaught' = TRUE
    /\ days' = OrDefault(forecast_days)
    /\ forecasts' = <<>>
    /\ \E growing \in BOOLEAN, baseVolume \in BaseVolumes :
          /\ isGrowing' = growing
          /\ currentVolume' = baseVolume
    /\ mlPc' = "fallback_loop"
    /\ UNCHANGED << notMl, mlMethod, forecast_days, mlResult >>

\* lines 180-194: one iteration, i being forecasts.length
FallbackDay ==
    /\ mlPc = "fallback_loop"
    /\ Len(forecasts) < days
    /\ \E noise \in NoiseVals, confidence \in ConfidenceVals :
          LET volume == NextVolume(currentVolume, isGrowing, noise)
          IN  /\ currentVolume' = volume
              /\ forecasts' = Append(forecasts,
                    [date |-> Len(forecasts),
                     predicted_shipments |-> volume,
                     confidence |-> confidence,
                     day_of_week |-> Len(forecasts) % 7])
    /\ UNCHANGED << notMl, mlPc, mlMethod, forecast_days, mlCaught, days,
                    isGrowing, mlResult >>

\* line 180 fails; lines 196-204
FallbackReturn ==
    /\ mlPc = "fallback_loop"
    /\ ~(Len(forecasts) < days)
    /\ mlResult' = [kind |-> "object", forecasts |-> forecasts,
                    trend |-> IF isGrowing THEN "increasing" ELSE "decreasing",
                    recommendations |-> Recommendations(isGrowing)]
    /\ mlPc' = "returned"
    /\ UNCHANGED << notMl, mlMethod, forecast_days, mlCaught, days, isGrowing,
                    currentVolume, forecasts >>

NextForecast ==
    \/ MlCall
    \/ HealthAnswers
    \/ UpstreamAnswers
    \/ UpstreamFails
    \/ ForecastFallback
    \/ FallbackDay
    \/ FallbackReturn

SpecForecast ==
    Init /\ [][NextForecast]_vars

(***************************************************************************)
(* Shipment server actions (src/unnamed/part_000).  The actions are called *)
(* one after the other; every await is a step of its own.  A write to the  *)
(* database succeeds or fails; a failed write changes no row.              *)
(***************************************************************************)
tableVars ==
    << shipmentsTable, driversTable, vehiclesTable, nextRowId >>

\* return result
ShipReturn(result) ==
    /\ shipResult' = result
    /\ shipPc' = "returned"

\* A server action is invoked: its locals are new.
ShipEnter(call, label) ==
    /\ shipPc \in { "idle", "returned" }
    /\ shipCall' = call
    /\ routeData' = NullValue
    /\ shipment' = NoShipment
    /\ shipResult' = NoResult
    /\ atCall' = Tables
    /\ shipPc' = label
    /\ UNCHANGED << notShip, tableVars, writeFailed >>

\* createShipment(formData), lines 15-26
CreateCall ==
    /\ nextRowId <= MaxRows
    /\ \E form \in Forms :
          ShipEnter([name |-> "createShipment", form |-> form,
                     shipmentId |-> 0, newStatus |-> ""], "create_validate")

\* lines 28-30
CreateMissingField ==
    /\ shipPc = "create_validate"
    /\ MissingRequired(shipCall.form)
    /\ ShipReturn(ErrorResult("All fields are required"))
    /\ UNCHANGED << notShip, tableVars, shipCall, routeData, shipment,
                    writeFailed, atCall >>

\* lines 32-34
CreateInvalidLocation ==
    /\ shipPc = "create_validate"
    /\ ~MissingRequired(shipCall.form)
    /\ InvalidLocation(shipCall.form)
    /\ ShipReturn(ErrorResult("Please select valid locations from the dropdown"))
    /\ UNCHANGED << notShip, tableVars, shipCall, routeData, shipment,
                    writeFailed, atCall >>

\* lines 36-57: Mapbox answers with a route, or routeData stays null
CreateFetchRoute ==
    /\ shipPc = "create_validate"
    /\ ~MissingRequired(shipCall.form)
    /\ ~InvalidLocation(shipCall.form)
    /\ \E rd \in RouteDatas : routeData' = rd
    /\ shipPc' = "create_insert"
    /\ UNCHANGED << notShip, tableVars, shipCall, shipment, shipResult,
                    writeFailed, atCall >>

\* Mutant of CreateInsertFails: shipmentError is not looked at, the action
\* goes on to the driver and the vehicle.
CreateInsertErrorIgnored ==
    /\ shipPc = "create_insert"
    /\ writeFailed' = TRUE
    /\ shipPc' = "create_driver"
    /\ UNCHANGED << notShip, tableVars, shipCall, routeData, shipment,
                    shipResult, atCall >>

\* lines 60-78: the insert fails
CreateInsertFails ==
    /\ shipPc = "create_insert"
    /\ writeFailed' = TRUE
    /\ ShipReturn(ErrorResult("insert failed"))
    /\ UNCHANGED << notShip, tableVars, shipCall, routeData, shipment, atCall >>

\* lines 60-74: the insert succeeds
CreateInsert ==
    /\ shipPc = "create_insert"
    /\ shipmentsTable' = shipmentsTable \cup
          { [id |-> nextRowId, status |-> "in_transit",
             driver_id |-> shipCall.form.driver_id,
             vehicle_id |-> shipCall.form.vehicle_id] }
    /\ nextRowId' = nextRowId + 1
    /\ shipPc' = "create_driver"
    /\ UNCHANGED << notShip, driversTable, vehiclesTable, shipCall, routeData,
                    shipment, shipResult, writeFailed, atCall >>

\* lines 81-84; the result of the update is not looked at
CreateUpdateDriver ==
    /\ shipPc = "create_driver"
    /\ \E ok \in BOOLEAN :
          /\ driversTable' =
                IF ok /\ shipCall.form.driver_id \in DOMAIN driversTable
                THEN [driversTable EXCEPT
                        ![shipCall.form.driver_id].status = "working"]
                ELSE driversTable
          /\ writeFailed' = (writeFailed \/ ~ok)
    /\ shipPc' = "create_vehicle"
    /\ UNCHANGED << notShip, shipmentsTable, vehiclesTable, nextRowId,
                    shipCall, routeData, shipment, shipResult, atCall >>

\* lines 87-113
CreateUpdateVehicle ==
    /\ shipPc = "create_vehicle"
    /\ \E ok \in BOOLEAN :
          /\ vehiclesTable' =
                IF ok /\ shipCall.form.vehicle_id \in DOMAIN vehiclesTable
                THEN [vehiclesTable EXCEPT ![shipCall.form.vehicle_id] =
                        [status |-> "in_use",
                         latitude |->
                            ParseFloatOrNull(shipCall.form.start_location_lat),
                         longitude |->
                            ParseFloatOrNull(shipCall.form.start_location_lng),
                         current_route |-> routeData,
                         route_index |-> 0,
                         eta |-> IF routeData # NullValue THEN "eta"
                                 ELSE NullValue]]
                ELSE vehiclesTable
          /\ writeFailed' = (writeFailed \/ ~ok)
    /\ ShipReturn(Success)
    /\ UNCHANGED << notShip, shipmentsTable, driversTable, nextRowId,
                    shipCall, routeData, shipment, atCall >>

\* updateShipmentStatus(shipmentId, newStatus), line 116
UpdateCall ==
    \E id \in 1..MaxRows, st \in ShipmentStatuses :
        ShipEnter([name |-> "updateShipmentStatus", form |-> ValidForm("", ""),
                   shipmentId |-> id, newStatus |-> st], "update_fetch")

\* lines 120-128: the select fails or finds no row
UpdateNotFound ==
    /\ shipPc = "update_fetch"
    /\ ShipReturn(ErrorResult("Shipment not found"))
    /\ UNCHANGED << notShip, tableVars, shipCall, routeData, shipment,
                    writeFailed, atCall >>

\* lines 120-124: the select finds the row
UpdateFetched ==
    /\ shipPc = "update_fetch"
    /\ \E r \in shipmentsTable :
          /\ r.id = shipCall.shipmentId
          /\ shipment' = r
    /\ shipPc' = "update_write"
    /\ UNCHANGED << notShip, tableVars, shipCall, routeData, shipResult,
                    writeFailed, atCall >>

\* lines 131-143: the update of the shipment fails
UpdateWriteFails ==
    /\ shipPc = "update_write"
    /\ writeFailed' = TRUE
    /\ ShipReturn(ErrorResult("update failed"))
    /\ UNCHANGED << notShip, tableVars, shipCall, routeData, shipment, atCall >>

\* lines 131-139: the update of the shipment succeeds
UpdateWrite ==
    /\ shipPc = "update_write"
    /\ shipmentsTable' =
          { IF r.id = shipCall.shipmentId
            THEN [r EXCEPT !.status = shipCall.newStatus] ELSE r :
                r \in shipmentsTable }
    /\ shipPc' = "update_release"
    /\ UNCHANGED << notShip, driversTable, vehiclesTable, nextRowId, shipCall,
                    routeData, shipment, shipResult, writeFailed, atCall >>

\* Mutant of UpdateKeeps: line 146 tests 'delivered' only, a cancelled
\* shipment keeps its driver and its vehicle.
UpdateKeepsUnlessDelivered ==
    /\ shipPc = "update_release"
    /\ shipCall.newStatus # "delivered"
    /\ ShipReturn(Success)
    /\ UNCHANGED << notShip, tableVars, shipCall, routeData, shipment,
                    writeFailed, atCall >>

\* line 146 is false; lines 168-173
UpdateKeeps ==
    /\ shipPc = "update_release"
    /\ shipCall.newStatus \notin { "delivered", "cancelled" }
    /\ ShipReturn(Success)
    /\ UNCHANGED << notShip, tableVars, shipCall, routeData, shipment,
                    writeFailed, atCall >>

\* lines 146-152
UpdateReleaseDriver ==
    /\ shipPc = "update_release"
    /\ shipCall.newStatus \in { "delivered", "cancelled" }
    /\ \E ok \in BOOLEAN :
          /\ driversTable' =
                IF ok /\ shipment.driver_id \in DOMAIN driversTable
                THEN [driversTable EXCEPT ![shipment.driver_id].status = "idle"]
                ELSE driversTable
          /\ writeFailed' =
                (writeFailed \/ (~ok /\ shipment.driver_id # NullValue))
    /\ shipPc' = "update_release_vehicle"
    /\ UNCHANGED << notShip, shipmentsTable, vehiclesTable, nextRowId,
                    shipCall, routeData, shipment, shipResult, atCall >>

\* lines 154-173
UpdateReleaseVehicle ==
    /\ shipPc = "update_release_vehicle"
    /\ \E ok \in BOOLEAN :
          /\ vehiclesTable' =
                IF ok /\ shipment.vehicle_id \in DOMAIN vehiclesTable
                THEN [vehiclesTable EXCEPT ![shipment.vehicle_id] =
                        [@ EXCEPT !.status = "idle",
                                  !.current_route = NullValue,
                                  !.route_index = 0,
                                  !.eta = NullValue]]
                ELSE vehiclesTable
          /\ writeFailed' =
                (writeFailed \/ (~ok /\ shipment.vehicle_id # NullValue))
    /\ ShipReturn(Success)
    /\ UNCHANGED << notShip, shipmentsTable, driversTable, nextRowId,
                    shipCall, routeData, shipment, atCall >>

\* deleteShipment(shipmentId), line 176
DeleteCall ==
    \E id \in 1..MaxRows :
        ShipEnter([name |-> "deleteShipment", form |-> ValidForm("", ""),
                   shipmentId |-> id, newStatus |-> ""], "delete_fetch")

\* lines 180-184: shipment is the row, or null when the select fails or
\* finds none
DeleteFetch ==
    /\ shipPc = "delete_fetch"
    /\ \E r \in { RowOf(shipmentsTable, shipCall.shipmentId), NoShipment } :
          shipment' = r
    /\ shipPc' = "delete_write"
    /\ UNCHANGED << notShip, tableVars, shipCall, routeData, shipResult,
                    writeFailed, atCall >>

\* lines 187-194: the delete fails
DeleteWriteFails ==
    /\ shipPc = "delete_write"
    /\ writeFailed' = TRUE
    /\ ShipReturn(ErrorResult("delete failed"))
    /\ UNCHANGED << notShip, tableVars, shipCall, routeData, shipment, atCall >>

\* lines 187-190: the delete succeeds
DeleteWrite ==
    /\ shipPc = "delete_write"
    /\ shipmentsTable' = { r \in shipmentsTable : r.id # shipCall.shipmentId }
    /\ shipPc' = "delete_release"
    /\ UNCHANGED << notShip, driversTable, vehiclesTable, nextRowId, shipCall,
                    routeData, shipment, shipResult, writeFailed, atCall >>

\* line 197 is false; lines 213-218
DeleteKeeps ==
    /\ shipPc = "delete_release"
    /\ ~(shipment # NoShipment /\ shipment.status = "in_transit")
    /\ ShipReturn(Success)
    /\ UNCHANGED << notShip, tableVars, shipCall, routeData, shipment,
                    writeFailed, atCall >>

\* lines 197-203
DeleteReleaseDriver ==
    /\ shipPc = "delete_release"
    /\ shipment # NoShipment
    /\ shipment.status = "in_transit"
    /\ \E ok \in BOOLEAN :
          /\ driversTable' =
                IF ok /\ shipment.driver_id \in DOMAIN driversTable
                THEN [driversTable EXCEPT ![shipment.driver_id].status = "idle"]
                ELSE driversTable
          /\ writeFailed' =
                (writeFailed \/ (~ok /\ shipment.driver_id # NullValue))
    /\ shipPc' = "delete_release_vehicle"
    /\ UNCHANGED << notShip, shipmentsTable, vehiclesTable, nextRowId,
                    shipCall, routeData, shipment, shipResult, atCall >>

\* lines 205-218
DeleteReleaseVehicle ==
    /\ shipPc = "delete_release_vehicle"
    /\ \E ok \in BOOLEAN :
          /\ vehiclesTable' =
                IF ok /\ shipment.vehicle_id \in DOMAIN vehiclesTable
                THEN [vehiclesTable EXCEPT
                        ![shipment.vehicle_id].status = "idle"]
                ELSE vehiclesTable
          /\ writeFailed' =
                (writeFailed \/ (~ok /\ shipment.vehicle_id # NullValue))
    /\ ShipReturn(Success)
    /\ UNCHANGED << notShip, shipmentsTable, driversTable, nextRowId,
                    shipCall, routeData, shipment, atCall >>

NextShipments ==
    \/ CreateCall
    \/ CreateMissingField
    \/ CreateInvalidLocation
    \/ CreateFetchRoute
    \/ CreateInsertFails
    \/ CreateInsert
    \/ CreateUpdateDriver
    \/ CreateUpdateVehicle
    \/ UpdateCall
    \/ UpdateNotFound
    \/ UpdateFetched
    \/ UpdateWriteFails
    \/ UpdateWrite
    \/ UpdateKeeps
    \/ UpdateReleaseDriver
    \/ UpdateReleaseVehicle
    \/ DeleteCall
    \/ DeleteFetch
    \/ DeleteWriteFails
    \/ DeleteWrite
    \/ DeleteKeeps
    \/ DeleteReleaseDriver
    \/ DeleteReleaseVehicle

SpecShipments ==
    Init /\ [][NextShipments]_vars


(***************************************************************************)
(* Auxiliary operators of the properties                                   *)
(***************************************************************************)
Last(sq) ==
    sq[Len(sq)]

\* How often x occurs in the sequence sq.
Count(sq, x) ==
    Cardinality({ i \in 1..Len(sq) : sq[i] = x })

Range(sq) ==
    { sq[i] : i \in 1..Len(sq) }

IsPermutation(a, b) ==
    /\ Len(a) = Len(b)
    /\ \A x \in Range(a) \cup Range(b) : Count(a, x) = Count(b, x)

\* sq without the first occurrence of x.
RECURSIVE RemoveFirst(_, _)
RemoveFirst(sq, x) ==
    IF sq = <<>> THEN <<>>
    ELSE IF Head(sq) = x THEN Tail(sq)
    ELSE << Head(sq) >> \o RemoveFirst(Tail(sq), x)

\* The input stops not yet on the route rt, in their original input order.
RECURSIVE Unvisited(_, _)
Unvisited(stops, rt) ==
    IF rt = <<>> THEN stops
    ELSE Unvisited(RemoveFirst(stops, Head(rt)), Tail(rt))

AllInRange(r) ==
    /\ InRange(r.Start)
    /\ \A i \in 1..Len(r.Stops) : InRange(r.Stops[i])

\* The sequencer has returned to the handler.
TspReturned(g) ==
    pc[g] = "route_encode"

\* The step just taken appended a stop to the route of g (lines 64-69).
Appended(g) ==
    /\ pc[g] = "tsp_pick"
    /\ pc'[g] = "tsp_loop"

\* The position the sequencer stands on according to the route built so far.
Position(g) ==
    IF route[g] = <<>> THEN req[g].Start ELSE Last(route[g])

C2_NearestEachStep ==
    [][ \A g \in DOMAIN pc : Appended(g) =>
          LET pool == Unvisited(req[g].Stops, route[g])
              chosen == Last(route'[g])
          IN  /\ route'[g] = Append(route[g], chosen)
              /\ current[g] = Position(g)
              /\ current'[g] = chosen
              /\ chosen \in Range(pool)
              /\ Distance(Position(g), chosen) # NaN
              /\ \A j \in 1..Len(pool) :
                    ~(  Distance(Position(g), pool[j]) # NaN
                     /\ Distance(Position(g), pool[j])
                          < Distance(Position(g), chosen) )
              /\ \A x \in Range(route'[g]) :
                    Count(route'[g], x) <= Count(req[g].Stops, x)
      ]_vars

\* The second step of a call picked the later of two pooled stops because it
\* is strictly nearer to the stop appended first.
C2_Witness ==
    \E g \in DOMAIN pc :
        /\ pc[g] = "tsp_loop"
        /\ Len(route[g]) = 2
        /\ remaining[g].len = 1
        /\ nearestIdx[g] = 1
        /\ Distance(route[g][1], route[g][2])
              < Distance(route[g][1], Elems(remaining[g], req[g].Stops)[1])

(***************************************************************************)
(* C3: when several unvisited stops are at the same minimum distance from  *)
(* the current position, the one appended is the one that comes first in   *)
(* the original input order, at every step, also after earlier removals.   *)
(***************************************************************************)
\* Indices (in original input order) of the unvisited stops at minimum distance.
Nearest(from, pool) ==
    { j \in 1..Len(pool) :
        /\ Distance(from, pool[j]) # NaN
        /\ \A k \in 1..Len(pool) :
              Distance(from, pool[k]) = NaN
                 \/ Distance(from, pool[k]) >= Distance(from, pool[j]) }

MinOf(S) ==
    CHOOSE m \in S : \A n \in S : m <= n

C3_TieEarliestInput ==
    [][ \A g \in DOMAIN pc : Appended(g) =>
          LET pool == Unvisited(req[g].Stops, route[g])
              tied == Nearest(Position(g), pool)
          IN  /\ tied # {}
              /\ Last(route'[g]) = pool[MinOf(tied)]
              /\ Unvisited(req[g].Stops, route'[g])
                    = Elems(remaining'[g], req'[g].Stops)
      ]_vars

\* After one removal, two different stops left in the pool were equally near;
\* the one appended is on the route, the other is still in the pool.
C3_Witness ==
    \E g \in DOMAIN pc :
        /\ pc[g] = "tsp_loop"
        /\ Len(route[g]) = 2
        /\ remaining[g].len = 1
        /\ LET other == Elems(remaining[g], req[g].Stops)[1]
           IN  /\ other # route[g][2]
               /\ Distance(route[g][1], other) # NaN
               /\ Distance(route[g][1], other)
                     = Distance(route[g][1], route[g][2])


(***************************************************************************)
(* Auxiliary operators of the allocator's properties                       *)
(***************************************************************************)
\* The allocator is running or has returned; its locals hold this call's data.
AllocRunning(g) ==
    pc[g] \in { "alloc_loop", "load_encode" }

AllocReturned(g) ==
    pc[g] = "load_encode"

\* Shipment ids are input positions.
WeightOfId(g, id) ==
    loadReq[g].Shipments[id].WeightKg

RECURSIVE SumWeights(_, _)
SumWeights(g, ids) ==
    IF ids = <<>> THEN 0
    ELSE WeightOfId(g, Head(ids)) + SumWeights(g, Tail(ids))

PositiveInput(r) ==
    /\ \A i \in 1..Len(r.Shipments) : r.Shipments[i].WeightKg > 0
    /\ \A v \in 1..Len(r.Vehicles) : r.Vehicles[v].CapacityKg > 0

\* Capacity a vehicle has left, from its capacity and what is assigned to it.
RoomLeft(g, v) ==
    loadReq[g].Vehicles[v].CapacityKg - SumWeights(g, assignments[g][v])

RECURSIVE Flatten(_)
Flatten(sqs) ==
    IF sqs = <<>> THEN <<>> ELSE Head(sqs) \o Flatten(Tail(sqs))

(***************************************************************************)
(* C4: for an input with strictly positive weights and capacities, after   *)
(* every assignment step of the allocator (not only at its end) the        *)
(* weights of the shipments assigned to a vehicle sum to at most the       *)
(* vehicle's capacityKg.                                                   *)
(***************************************************************************)
C4_CapacityEachStep ==
    \A g \in DOMAIN pc :
        (AllocRunning(g) /\ PositiveInput(loadReq[g])) =>
            \A v \in 1..Len(loadReq[g].Vehicles) :
                SumWeights(g, assignments[g][v])
                    <= loadReq[g].Vehicles[v].CapacityKg

\* In the middle of a run a vehicle is filled exactly to its capacity by two
\* shipments and a shipment is still to be processed.
C4_Witness ==
    \E g \in DOMAIN pc :
        /\ pc[g] = "alloc_loop"
        /\ PositiveInput(loadReq[g])
        /\ next[g] < Len(sorted[g])
        /\ \E v \in 1..Len(loadReq[g].Vehicles) :
              /\ Len(assignments[g][v]) = 2
              /\ SumWeights(g, assignments[g][v])
                    = loadReq[g].Vehicles[v].CapacityKg

(***************************************************************************)
(* C5: in every result of the allocator each input shipment id is in       *)
(* exactly one place, one vehicle's list or the unassigned list: none is   *)
(* dropped, none is duplicated, and no id that is not in the input occurs. *)
(***************************************************************************)
C5_Conservation ==
    \A g \in DOMAIN pc :
        AllocReturned(g) =>
            LET placed == Flatten(assignments[g]) \o unassigned[g]
            IN  /\ Len(assignments[g]) = Len(loadReq[g].Vehicles)
                /\ Len(placed) = Len(loadReq[g].Shipments)
                /\ \A i \in 1..Len(loadReq[g].Shipments) :
                      Count(placed, loadReq[g].Shipments[i].ID) = 1
                /\ \A id \in Range(placed) :
                      \E i \in 1..Len(loadReq[g].Shipments) :
                          loadReq[g].Shipments[i].ID = id

\* A result for three shipments of which one is unassigned and two are on
\* different vehicles.
C5_Witness ==
    \E g \in DOMAIN pc :
        /\ AllocReturned(g)
        /\ Len(loadReq[g].Shipments) = 3
        /\ Len(unassigned[g]) = 1
        /\ Len(assignments[g]) = 2
        /\ Len(assignments[g][1]) = 1
        /\ Len(assignments[g][2]) = 1

(***************************************************************************)
(* C6: the allocator processes the shipments by descending weight, equal   *)
(* weights in input order; each goes to the vehicle with the least room    *)
(* left among those with room >= its weight, the earliest such vehicle in  *)
(* input order; it goes to unassigned exactly when no vehicle has room >=  *)
(* its weight at that step.  V1 of capacity 100 with S1 = 60 and S2 = 50   *)
(* gives S1 on V1 and S2 unassigned.                                       *)
(***************************************************************************)
ProcessingOrder(g) ==
    /\ IsPermutation(sorted[g], loadReq[g].Shipments)
    /\ \A i, j \in 1..Len(sorted[g]) :
          i < j => \/ sorted[g][i].WeightKg > sorted[g][j].WeightKg
                   \/ /\ sorted[g][i].WeightKg = sorted[g][j].WeightKg
                      /\ sorted[g][i].ID < sorted[g][j].ID

Scenario100(g) ==
    (  /\ Len(loadReq[g].Vehicles) = 1
       /\ loadReq[g].Vehicles[1].CapacityKg = 100
       /\ Len(loadReq[g].Shipments) = 2
       /\ loadReq[g].Shipments[1].WeightKg = 60
       /\ loadReq[g].Shipments[2].WeightKg = 50 )
    => ( assignments[g] = << << 1 >> >> /\ unassigned[g] = << 2 >> )

AllocStepRight(g) ==
    LET s == sorted[g][next[g] + 1]
        fits == { v \in 1..Len(loadReq[g].Vehicles) :
                      RoomLeft(g, v) >= s.WeightKg }
    IN  /\ next[g] < Len(sorted[g])
        /\ IF fits = {}
           THEN /\ unassigned'[g] = Append(unassigned[g], s.ID)
                /\ assignments'[g] = assignments[g]
           ELSE /\ unassigned'[g] = unassigned[g]
                /\ \E v \in fits :
                      /\ \A u \in fits :
                            \/ RoomLeft(g, v) < RoomLeft(g, u)
                            \/ RoomLeft(g, v) = RoomLeft(g, u) /\ v <= u
                      /\ assignments'[g] =
                            [assignments[g] EXCEPT ![v] = Append(@, s.ID)]

C6_BestFitDecreasing ==
    /\ [](\A g \in DOMAIN pc :
            /\ AllocRunning(g) => ProcessingOrder(g)
            /\ AllocReturned(g) => Scenario100(g))
    /\ [][ \A g \in DOMAIN pc :
             (pc[g] = "alloc_loop" /\ next'[g] # next[g]) =>
                 (next'[g] = next[g] + 1 /\ AllocStepRight(g)) ]_vars

\* The heaviest shipment was not first in the input, and it went to the second
\* vehicle although the first, larger one had room for it as well.
C6_Witness ==
    \E g \in DOMAIN pc :
        /\ pc[g] = "alloc_loop"
        /\ next[g] = 1
        /\ sorted[g] # loadReq[g].Shipments
        /\ Len(loadReq[g].Vehicles) = 2
        /\ assignments[g] = << <<>>, << sorted[g][1].ID >> >>
        /\ sorted[g][1].WeightKg <= loadReq[g].Vehicles[1].CapacityKg

(***************************************************************************)
(* C7: a request sent twice with identical input gets identical output:    *)
(* the second answer of Sequence (or Allocate) equals the first, whatever  *)
(* the first call left behind.                                             *)
(***************************************************************************)
C7_Deterministic ==
    \A g \in DOMAIN pc :
        (calls[g] >= 2 /\ pc[g] \in { "done", "panicked" }) =>
            Outcome(g) = prevOut[g]

\* The second call for a three-stop request has answered with its route.
C7_Witness ==
    \E g \in DOMAIN pc :
        /\ calls[g] = 2
        /\ pc[g] = "done"
        /\ endpoint[g] = "/optimize"
        /\ status[g] = StatusOK
        /\ Len(respBody[g].json) = 3
        /\ prevOut[g].status = StatusOK

(***************************************************************************)
(* C8: the /optimize handler answers 405 to every request that is not a    *)
(* POST, before reading the body; 400 to a POST whose body cannot be       *)
(* decoded; and otherwise 200 with the sequence the route sequencer        *)
(* produced.  Every request gets exactly one of these three answers.       *)
(***************************************************************************)
\* The handler has stopped working on the request.
Finished(g) ==
    pc[g] \in { "done", "panicked" }

C8_OptimizeOutcomes ==
    \A g \in DOMAIN pc :
        endpoint[g] = "/optimize" =>
            /\ method[g] # "POST" => ~bodyRead[g]
            /\ (status[g] # NoStatus) => pc[g] = "done"
            /\ Finished(g) =>
                  /\ method[g] # "POST" =>
                        status[g] = StatusMethodNotAllowed
                  /\ (method[g] = "POST" /\ body[g].kind = "malformed") =>
                        status[g] = StatusBadRequest
                  /\ (method[g] = "POST" /\ body[g].kind # "malformed") =>
                        /\ status[g] = StatusOK
                        /\ solverCalls[g] = 1
                        /\ respBody[g] = JsonBody(route[g])

\* What holds of the answers the handler does give: each is the one of the
\* three that the method and the body call for, and a request is left without
\* an answer only when the sequencer panicked.
OptimizeAnswersClassified ==
    \A g \in DOMAIN pc :
        endpoint[g] = "/optimize" =>
            /\ method[g] # "POST" => ~bodyRead[g]
            /\ (status[g] # NoStatus) <=> (pc[g] = "done")
            /\ pc[g] = "done" =>
                  /\ (status[g] = StatusMethodNotAllowed)
                        <=> (method[g] # "POST")
                  /\ (status[g] = StatusBadRequest)
                        <=> (method[g] = "POST" /\ body[g].kind = "malformed")
                  /\ (status[g] = StatusOK)
                        <=> (method[g] = "POST" /\ body[g].kind # "malformed")
            /\ status[g] = StatusOK =>
                  /\ solverCalls[g] = 1
                  /\ respBody[g] = JsonBody(route[g])
            /\ pc[g] = "panicked" => ~AllInRange(req[g])

(***************************************************************************)
(* C9: the /optimize-load handler answers 400 without running the          *)
(* allocator whenever a shipment of the request has weightKg <= 0 or a     *)
(* vehicle has capacityKg <= 0; it answers 405 to a method other than POST *)
(* and 400 to a malformed body.                                            *)
(***************************************************************************)
NonPositiveLoad(b) ==
    \/ \E i \in 1..Len(b.shipments) : b.shipments[i].WeightKg <= 0
    \/ \E v \in 1..Len(b.vehicles) : b.vehicles[v].CapacityKg <= 0

C9_LoadRejectsNonPositive ==
    \A g \in DOMAIN pc :
        endpoint[g] = "/optimize-load" =>
            /\ (method[g] = "POST" /\ body[g].kind = "json"
                  /\ NonPositiveLoad(body[g])) =>
                    /\ solverCalls[g] = 0
                    /\ pc[g] = "done" => status[g] = StatusBadRequest
            /\ (pc[g] = "done" /\ method[g] # "POST") =>
                    status[g] = StatusMethodNotAllowed
            /\ (pc[g] = "done" /\ method[g] = "POST"
                  /\ body[g].kind = "malformed") =>
                    status[g] = StatusBadRequest

(***************************************************************************)
(* C10: a POST whose payload is unparseable or lacks a required field      *)
(* (start or stops for /optimize, vehicles or shipments for                *)
(* /optimize-load) is answered 400 and never reaches a solver; a solver is *)
(* only called after the method check and the decode have succeeded.       *)
(***************************************************************************)
MissingField(g) ==
    IF endpoint[g] = "/optimize"
    THEN ~body[g].hasStart \/ ~body[g].hasStops
    ELSE ~body[g].hasVehicles \/ ~body[g].hasShipments

C10_MalformedNeverSolved ==
    \A g \in DOMAIN pc :
        pc[g] # "idle" =>
            /\ (endpoint[g] \in { "/optimize", "/optimize-load" }
                  /\ method[g] = "POST"
                  /\ (body[g].kind = "malformed" \/ MissingField(g))) =>
                    /\ solverCalls[g] = 0
                    /\ pc[g] = "done" => status[g] = StatusBadRequest
            /\ solverCalls[g] > 0 =>
                    /\ method[g] = "POST"
                    /\ bodyRead[g]
                    /\ err[g] = "nil"

(***************************************************************************)
(* C11: an /optimize-load request with an empty vehicle list and at least  *)
(* one shipment is rejected at the boundary: the allocator is not run on   *)
(* it and the answer is an error status, not a 200 that lists every        *)
(* shipment as unassigned.                                                 *)
(***************************************************************************)
EmptyFleet(b) ==
    b.kind = "json" /\ Len(b.vehicles) = 0 /\ Len(b.shipments) >= 1

C11_EmptyFleetRejected ==
    \A g \in DOMAIN pc :
        (endpoint[g] = "/optimize-load" /\ method[g] = "POST"
           /\ EmptyFleet(body[g])) =>
            /\ solverCalls[g] = 0
            /\ pc[g] = "done" => status[g] # StatusOK

(***************************************************************************)
(* C12: there is a maximum size such that every request with more stops    *)
(* (/optimize) or more shipments (/optimize-load) than the maximum is      *)
(* rejected with a status of its own (none of 200, 400, 405), the solver   *)
(* is not run on it and the decoded input keeps every element sent.  The   *)
(* maximum ranges over the sizes below the largest request the clients of  *)
(* the model send, so that some request exceeds it.                        *)
(***************************************************************************)
RequestSize(g) ==
    IF endpoint[g] = "/optimize" THEN Len(body[g].stops)
    ELSE Len(body[g].shipments)

LargestSent(g) ==
    IF endpoint[g] = "/optimize" THEN MaxStops ELSE MaxShipments

Truncated(g) ==
    /\ bodyRead[g]
    /\ IF endpoint[g] = "/optimize"
       THEN Len(req[g].Stops) < Len(body[g].stops)
       ELSE Len(loadReq[g].Shipments) < Len(body[g].shipments)

C12_OversizedRejected ==
    \A g \in DOMAIN pc :
        (endpoint[g] \in { "/optimize", "/optimize-load" }
           /\ method[g] = "POST" /\ body[g].kind = "json") =>
            \E max \in 0..(LargestSent(g) - 1) :
                RequestSize(g) > max =>
                    /\ solverCalls[g] = 0
                    /\ ~Truncated(g)
                    /\ pc[g] = "done" =>
                          status[g] \notin { StatusOK, StatusBadRequest,
                                             StatusMethodNotAllowed }

(***************************************************************************)
(* C14: the /health handler answers 200 OK to every request, whatever its  *)
(* method or body and whatever request the server handled before it; a     *)
(* /health request never ends without that answer.                         *)
(***************************************************************************)
C14_HealthAlwaysOK ==
    \A g \in DOMAIN pc :
        endpoint[g] = "/health" =>
            /\ pc[g] \in { "serve", "done" }
            /\ pc[g] = "done" =>
                  /\ status[g] = StatusOK
                  /\ respBody[g].text = "OK"
            /\ solverCalls[g] = 0

\* A POST with an undecodable body to /health, sent after a request on which
\* the sequencer panicked, has been answered.
C14_Witness ==
    \E g \in DOMAIN pc :
        /\ endpoint[g] = "/health"
        /\ pc[g] = "done"
        /\ method[g] = "POST"
        /\ body[g].kind = "malformed"
        /\ prevOut[g].pc = "panicked"

(***************************************************************************)
(* C15: for every request the /optimize handler can decode, the sequencer  *)
(* terminates without a runtime failure: it never panics; the pool and the *)
(* route together always hold n stops, so the pool shrinks by one per      *)
(* outer iteration and the loop ends after n of them with the pool empty;  *)
(* and when the pool is indexed, the index the scan left is inside the     *)
(* pool (never the initial -1).                                            *)
(***************************************************************************)
C15_SequencerTotal ==
    \A g \in DOMAIN pc :
        (endpoint[g] = "/optimize" /\ Len(req[g].Stops) > 0) =>
            /\ pc[g] # "panicked"
            /\ pc[g] \in { "tsp_loop", "tsp_pick" } =>
                  remaining[g].len + Len(route[g]) = Len(req[g].Stops)
            /\ pc[g] = "tsp_pick" =>
                  /\ remaining[g].len > 0
                  /\ nearestIdx[g] \in 0..(remaining[g].len - 1)
            /\ pc[g] = "route_encode" =>
                  /\ remaining[g].len = 0
                  /\ Len(route[g]) = Len(req[g].Stops)

\* What the sequencer does guarantee: the same, for requests whose
\* coordinates are inside the data model's range.
SequencerTotalInRange ==
    \A g \in DOMAIN pc :
        (endpoint[g] = "/optimize" /\ Len(req[g].Stops) > 0
           /\ AllInRange(req[g])) =>
            /\ pc[g] # "panicked"
            /\ pc[g] \in { "tsp_loop", "tsp_pick" } =>
                  remaining[g].len + Len(route[g]) = Len(req[g].Stops)
            /\ pc[g] = "tsp_pick" =>
                  /\ remaining[g].len > 0
                  /\ nearestIdx[g] \in 0..(remaining[g].len - 1)
            /\ pc[g] = "route_encode" =>
                  /\ remaining[g].len = 0
                  /\ Len(route[g]) = Len(req[g].Stops)

(***************************************************************************)
(* C18: SolveTSPNearestNeighbor leaves the caller's stops slice unchanged: *)
(* from the call on, req.Stops holds the elements the request was decoded  *)
(* to, in the same order, because the removals are applied to a private    *)
(* copy.                                                                   *)
(***************************************************************************)
C18_StopsUnchanged ==
    \A g \in DOMAIN pc :
        (endpoint[g] = "/optimize" /\ solverCalls[g] = 1) =>
            req[g].Stops = body[g].stops

\* The sequencer has returned a three-stop route whose order differs from the
\* input order, so a removal has moved elements of the pool down.
C18_Witness ==
    \E g \in DOMAIN pc :
        /\ endpoint[g] = "/optimize"
        /\ pc[g] = "route_encode"
        /\ Len(req[g].Stops) = 3
        /\ route[g] # req[g].Stops
        /\ route[g][1] = req[g].Stops[1]
        /\ req[g].Stops[2] # req[g].Stops[3]

(***************************************************************************)
(* C16: concurrent Sequence requests do not interfere.  In every           *)
(* interleaving of two /optimize requests, each request ends with the      *)
(* outcome it has when it is served alone (the same status and route, or   *)
(* the same panic), and while it runs, its pool, position and route are    *)
(* what a run alone has after as many picks.                               *)
(***************************************************************************)
\* The sequencer run alone from position cur on the pool, rt being the route
\* built so far, for at most steps picks.
RECURSIVE SequenceAlone(_, _, _, _)
SequenceAlone(cur, pool, rt, steps) ==
    IF pool = <<>> \/ steps = 0
    THEN [pc |-> "returned", current |-> cur, pool |-> pool, route |-> rt]
    ELSE LET r == NearestScan(cur, pool)
         IN  IF r.nearestIdx < 0
             THEN [pc |-> "panicked", current |-> cur, pool |-> pool,
                   route |-> rt]
             ELSE LET nextStop == pool[r.nearestIdx + 1]
                      rest == [j \in 1..(Len(pool) - 1) |->
                                  IF j <= r.nearestIdx THEN pool[j]
                                  ELSE pool[j + 1]]
                  IN  SequenceAlone(nextStop, rest, Append(rt, nextStop),
                                    steps - 1)

\* What the client of a request gets when no other request is served.
OutcomeAlone(m, b) ==
    IF m # "POST"
    THEN [pc |-> "done", status |-> StatusMethodNotAllowed,
          body |-> ErrorBody("Method not allowed")]
    ELSE IF b.kind = "malformed"
    THEN [pc |-> "done", status |-> StatusBadRequest,
          body |-> ErrorBody("Invalid request body")]
    ELSE LET r == SequenceAlone(b.start, b.stops, <<>>, Len(b.stops))
         IN  IF r.pc = "panicked"
             THEN [pc |-> "panicked", status |-> NoStatus, body |-> NoBody]
             ELSE [pc |-> "done", status |-> StatusOK,
                   body |-> JsonBody(r.route)]

C16_NoInterference ==
    \A g \in DOMAIN pc :
        /\ Finished(g) => Outcome(g) = OutcomeAlone(method[g], body[g])
        /\ pc[g] \in { "tsp_loop", "tsp_pick" } =>
              LET r == SequenceAlone(body[g].start, body[g].stops, <<>>,
                                     Len(route[g]))
              IN  /\ r.route = route[g]
                  /\ r.current = current[g]
                  /\ r.pool = Elems(remaining[g], req[g].Stops)

\* Two requests with different stop lists are in the sequencer at the same
\* time, each after its first pick, at different positions.
C16_Witness ==
    /\ DOMAIN pc = ConcProcs
    /\ \A g \in DOMAIN pc :
          /\ pc[g] = "tsp_loop"
          /\ Len(route[g]) = 1
          /\ remaining[g].len = 1
    /\ current["g1"] # current["g2"]
    /\ body["g1"].stops # body["g2"].stops

(***************************************************************************)
(* C13: when the route optimizeTripSheetRoute produced places the drop of  *)
(* a shipment at an order not strictly greater than the order of its       *)
(* pickup, the call still returns the full route, in the order the         *)
(* sequencer gave it, with isValid = false and a non-empty errors list; a  *)
(* call never throws once it has a route; and every route returned has     *)
(* been validated: isValid and errors are the validator's verdict on it.   *)
(***************************************************************************)
DropNotAfterPickup(wps) ==
    \E i, j \in 1..Len(wps) :
        /\ wps[i].type = "drop"
        /\ wps[j].type = "pickup"
        /\ wps[i].shipmentId = wps[j].shipmentId
        /\ wps[i].order <= wps[j].order

C13_InvalidRouteReported ==
    /\ tripPc = "thrown" => optimized = NoRoute /\ ~validation.ran
    /\ tripPc = "returned" =>
          /\ validation.ran
          /\ tripResult.isValid = validation.isValid
          /\ tripResult.errors = validation.errors
          /\ Len(tripResult.waypoints) = 2 * Len(tripShipments)
          /\ \A i \in 1..Len(optimized) :
                /\ tripResult.waypoints[i].order = i - 1
                /\ tripResult.waypoints[i].order = optimized[i].order
                /\ tripResult.waypoints[i].shipmentId = optimized[i].shipmentId
                /\ tripResult.waypoints[i].type = optimized[i].type
          /\ DropNotAfterPickup(optimized) =>
                /\ tripResult.isValid = FALSE
                /\ tripResult.errors # <<>>
                /\ DropNotAfterPickup(tripResult.waypoints)

\* A trip sheet of two shipments has been returned in which the drop of the
\* second shipment comes before its pickup.
C13_Witness ==
    /\ tripPc = "returned"
    /\ Len(tripShipments) = 2
    /\ Len(tripResult.waypoints) = 4
    /\ \E i, j \in 1..4 :
          /\ i < j
          /\ tripResult.waypoints[i].type = "drop"
          /\ tripResult.waypoints[j].type = "pickup"
          /\ tripResult.waypoints[i].shipmentId = 2
          /\ tripResult.waypoints[j].shipmentId = 2
    /\ tripResult.isValid = FALSE

C19_InTransitMeansBusy ==
    (shipPc \in { "idle", "returned" } /\ ~writeFailed) =>
        \A r \in shipmentsTable :
            r.status = "in_transit" =>
                /\ driversTable[r.driver_id].status = "working"
                /\ vehiclesTable[r.vehicle_id].status = "in_use"

(***************************************************************************)
(* C20: whenever createShipment returns an error (a required field is      *)
(* missing, one of the four coordinates is missing or zero, or the insert  *)
(* of the shipment fails), the call has modified no driver row and no      *)
(* vehicle row, and in the two validation cases it has inserted no         *)
(* shipment row; the call writes a driver or vehicle status only after it  *)
(* has inserted its shipment row.                                          *)
(***************************************************************************)
\* The rows the call in progress has added to table shipments.
InsertedByCall ==
    shipmentsTable \ atCall.shipments

C20_CreateErrorWritesNothing ==
    shipCall.name = "createShipment" =>
        /\ (shipPc = "returned" /\ shipResult.kind = "error") =>
              /\ driversTable = atCall.drivers
              /\ vehiclesTable = atCall.vehicles
              /\ (MissingRequired(shipCall.form)
                    \/ InvalidLocation(shipCall.form)) =>
                        shipmentsTable = atCall.shipments
        /\ (shipPc = "returned"
              /\ (MissingRequired(shipCall.form)
                    \/ InvalidLocation(shipCall.form))) =>
              shipResult.kind = "error"
        /\ (driversTable # atCall.drivers \/ vehiclesTable # atCall.vehicles) =>
              \E r \in InsertedByCall :
                  /\ r.driver_id = shipCall.form.driver_id
                  /\ r.vehicle_id = shipCall.form.vehicle_id
                  /\ r.status = "in_transit"

\* createShipment for the idle driver D2 has returned the error of a failed
\* insert, while a shipment of driver D1 is in transit.
C20_Witness ==
    /\ shipCall.name = "createShipment"
    /\ shipPc = "returned"
    /\ shipResult = ErrorResult("insert failed")
    /\ shipCall.form.driver_id = "D2"
    /\ driversTable["D2"].status = "idle"
    /\ driversTable["D1"].status = "working"
    /\ \E r \in shipmentsTable : r.status = "in_transit"

(***************************************************************************)
(* C21: updateShipmentStatus sets the driver and the vehicle of the         *)
(* shipment to 'idle', and clears the vehicle's current_route, route_index  *)
(* and eta, exactly when the new status is 'delivered' or 'cancelled' and   *)
(* the update of the shipment succeeded.  For any other new status, when    *)
(* the shipment is not found and when the update of the shipment fails, no  *)
(* driver row and no vehicle row changes.  A row counts as set when the     *)
(* database accepted the write: the code does not look at the result of the *)
(* two release writes, so the rows are required to be idle in the           *)
(* behaviours where no write was refused.                                   *)
(***************************************************************************)
StatusCallRow ==
    RowOf(atCall.shipments, shipCall.shipmentId)

Closing ==
    shipCall.newStatus \in { "delivered", "cancelled" }

Released(v) ==
    [v EXCEPT !.status = "idle", !.current_route = NullValue,
              !.route_index = 0, !.eta = NullValue]

=============================================================================
